---- MODULE Spec2Model ----
(***************************************************************************)
(* Store layer of the e-commerce API (postgres package) and the HTTP       *)
(* handlers that drive it.                                                 *)
(*                                                                         *)
(* The tables are the ones of the migrations: categories, products (with   *)
(* a foreign key to categories, ON DELETE CASCADE) and carts (foreign keys *)
(* to products and users, ON DELETE CASCADE).  A store call that is one    *)
(* autocommit statement (categoryStore, cartStore) is one step.  A store   *)
(* call that wraps its statement in a transaction (ProductStore) is two    *)
(* steps, the statement and the commit, and holds the row lock between     *)
(* them.  created_at / updated_at are wall-clock values no operation reads *)
(* back into a decision; they are not part of the rows modelled here.      *)
(***************************************************************************)
EXTENDS Integers, Sequences, FiniteSets, TLC

\* ---------------------------------------------------------------- bounds
MaxCategories == 2      \* values the categories id sequence may hand out
MaxProducts == 2        \* values the products id sequence may hand out
MaxVersion == 3         \* a row is updated until it reaches this version
MaxUsers == 2           \* values the users id sequence may hand out
MaxCarts == 2           \* values the carts id sequence may hand out
MaxTime == 3            \* the clock stops here

\* ------------------------------------------------------------ value sets
NULL == "NULL"                      \* a nil *string field / SQL NULL argument
NullInt == -1                       \* a nil *int field / SQL NULL argument
Names == {"a", "b"}
Descriptions == {"x", "y"}
Prices == {5}
Quantities == {1}
CartQuantities == {1, 2}
Emails == {"e"}
Plains == {"p", "q"}                \* plain tokens GenerateToken may draw
TTLs == {1, 2}                      \* the expiry duration given to GenerateToken
Workers == {"w1", "w2"}             \* request goroutines served concurrently

\* ------------------------------------------------------------ error kinds
\* One value per error variable of the domain package.  ErrCategoryConflict
\* and ErrProductConflict carry the same text ("update conflict error") and
\* are distinct values; ErrInternal stands for every wrapped engine error.
OK == "nil"
ErrDuplicatedCategory == "duplicated category"
ErrNoCategoryFound == "no categories found"
ErrCategoryConflict == "category update conflict error"
ErrInvalidProductCategory == "invalid category"
ErrDuplicatedProduct == "duplicated product"
ErrNoProductsFound == "products not found"
ErrProductConflict == "product update conflict error"
ErrCartInvalidUserID == "invalid user id cart"
ErrCartInvalidProductID == "invalid product id cart"
ErrNoCartsFound == "no carts found"
ErrDuplicatedUserEmail == "duplicated email are not allowed"
ErrNoUserToList == "there is no user to list"
ErrUserNotFound == "requested user not found"
ErrForeinKeyViolation == "foreign key violation"
ErrNoSearchResult == "no search result"
ErrInvalidToken == "invalid user token"
ErrNoTokenFound == "token not found"
ErrNoRows == "no rows in results set"
ErrInternal == "internal"
\* ctx.Err() of the request context: middleware.Timeout or the client's
\* disconnect ended the request.  ErrCanceled is the error of a call made once
\* the context is done (nothing is sent), ErrDeadlineExceeded the error of a
\* round trip the context interrupted
ErrCanceled == "context canceled"
ErrDeadlineExceeded == "context deadline exceeded"
errCategoryNameRequired == "name is required"
errCategoryDescriptionRequired == "description is required"
errProductNameRequired == "name is required"
errProductDescriptionRequired == "description is required"
errQuantityRequired == "quantity is required"
errPriceRequired == "price is required"
errCategoryIDRequired == "CategoryID is required"

VARIABLES
    categories,       \* id -> [name, description, version], the committed rows
    categoriesSeq,    \* last value handed out by the bigserial of categories.id
    products,         \* id -> [name, description, category_id, price, quantity, version]
    productsSeq,      \* last value handed out by the bigserial of products.id
    users,            \* id -> [email]
    usersSeq,         \* last value handed out by the bigserial of users.id
    carts,            \* id -> [product_id, quantity, user_id]
    cartsSeq,         \* last value handed out by the bigserial of carts.id
    tokens,           \* the rows of tokens: a set of [hashed, user_id, expiry]
    now,              \* the clock NOW() and time.Now() read
    responses,        \* per worker: the responses written for its request, in order
    call              \* per worker: the request it serves and how far it got

vars == <<categories, categoriesSeq, products, productsSeq, users, usersSeq,
          carts, cartsSeq, tokens, now, responses, call>>
catalog == <<categories, categoriesSeq, products, productsSeq>>
cartTables == <<users, usersSeq, carts, cartsSeq>>
auth == <<tokens, now>>
tables == <<catalog, cartTables, auth>>

\* call[w] = [pc, op, id, in, err, out, seen, read]
\*   pc    "idle", "read" (the handler holds the row it read), "locked" (the
\*         statement of an open transaction succeeded, commit pending), "done"
\*   in    the argument of the call; out: the rows or struct handed back
\*   seen  the stored version of row `id` that the call's statement met (0: no
\*         such row); read: the version the handler's GetByID returned before
\*         (0: the call has no read).  History values, no operation reads them.
NoInput == [none |-> TRUE]
Idle == [pc |-> "idle", op |-> "none", id |-> 0, in |-> NoInput, err |-> OK,
         out |-> <<>>, seen |-> 0, read |-> 0]
Done(op, id, in, err, out, seen) ==
    [pc |-> "done", op |-> op, id |-> id, in |-> in, err |-> err, out |-> out,
     seen |-> seen, read |-> 0]

Init ==
    /\ categories = <<>>
    /\ categoriesSeq = 0
    /\ products = <<>>
    /\ productsSeq = 0
    /\ users = <<>>
    /\ usersSeq = 0
    /\ carts = <<>>
    /\ cartsSeq = 0
    /\ tokens = {}
    /\ now = 0
    /\ responses = [w \in Workers |-> <<>>]
    /\ call = [w \in Workers |-> Idle]

\* ------------------------------------------------------------- responses
\* the text the storage engine and its driver put in an error
RawEngineText == "ERROR: ... (SQLSTATE ...)"

\* err.Error(): a domain error is its own text; every other store error is
\* fmt.Errorf("failed to ...: %v", err), the engine's text behind a prefix
ErrorText(err) ==
    IF err = OK THEN <<>>
    ELSE IF err = ErrInternal THEN <<"failed to", RawEngineText>>
    ELSE <<err>>

\* Errorf(w, r, code, err.Error()) / ToJSON(w, v, code): one more response
\* written on the worker's connection; the message of an error response is
\* the text of the error
Written(w, code, err) ==
    [responses EXCEPT ![w] = Append(@, [code |-> code, message |-> ErrorText(err)])]

\* ---------------------------------------------------------- table helpers
Drop(table, ids) == [i \in (DOMAIN table) \ ids |-> table[i]]
Put(table, id, row) == [i \in (DOMAIN table) \cup {id} |-> IF i = id THEN row ELSE table[i]]
StoredVersion(table, id) == IF id \in DOMAIN table THEN table[id].version ELSE 0

\* categories.name is UNIQUE: a row other than `id` already holds `name`
\* the table without its unique index
CategoryNameNeverTaken(id, name) == FALSE
CategoryNameTaken(id, name) ==
    \E i \in DOMAIN categories : i # id /\ categories[i].name = name
\* products.name is UNIQUE
ProductNameTaken(id, name) ==
    \E i \in DOMAIN products : i # id /\ products[i].name = name

\* ------------------------------------------- open transactions (ProductStore)
\* The write an open transaction has made and not yet committed.
Pending(w) == call[w].pc = "locked"
\* the row lock of an uncommitted UPDATE or DELETE of products row `id`
\* a statement that does not wait for the row lock of another transaction
RowNeverLocked(w, id) == FALSE
RowLockedByOther(w, id) ==
    \E v \in Workers \ {w} :
        Pending(v) /\ call[v].op \in {"product.Update", "http.updateProduct",
                                      "product.Delete"}
                   /\ call[v].id = id
\* the unique index waits for an uncommitted write of another transaction that
\* inserts `name` or moves a row away from it
NameInDoubt(w, name) ==
    \E v \in Workers \ {w} :
        /\ Pending(v)
        /\ \/ /\ call[v].op \in {"product.Create", "product.Update", "http.updateProduct",
                                "http.createProduct"}
              /\ call[v].out[1].name = name
           \/ /\ call[v].op \in {"product.Update", "http.updateProduct", "product.Delete"}
              /\ call[v].id \in DOMAIN products
              /\ products[call[v].id].name = name
\* the key-share lock a pending product write holds on the category it references,
\* and the row locks a cascading delete of the category needs
CategoryPinned(ID) ==
    \E v \in Workers :
        /\ Pending(v)
        /\ \/ /\ call[v].op \in {"product.Create", "product.Update", "http.updateProduct",
                                "http.createProduct"}
              /\ call[v].out[1].category_id = ID
           \/ /\ call[v].op \in {"product.Update", "http.updateProduct", "product.Delete"}
              /\ call[v].id \in DOMAIN products
              /\ products[call[v].id].category_id = ID
\* the row lock an uncommitted DELETE holds on the product / user row `id`: the
\* foreign-key check of a cart or token write (SELECT ... FOR KEY SHARE) waits
ProductRefLocked(id) ==
    \E v \in Workers : Pending(v) /\ call[v].op = "product.Delete" /\ call[v].id = id
UserRefLocked(id) ==
    \E v \in Workers : Pending(v) /\ call[v].op = "user.Delete" /\ call[v].id = id
\* the row locks the cascade of an uncommitted DELETE holds on carts row `ID`
CartRowLocked(ID) ==
    /\ ID \in DOMAIN carts
    /\ \/ ProductRefLocked(carts[ID].product_id)
       \/ UserRefLocked(carts[ID].user_id)

\* ------------------------------------------------------------ categoryStore
CategoryCreate(w, name, description) ==
    /\ call[w].pc = "idle"
    /\ categoriesSeq < MaxCategories
    /\ LET id == categoriesSeq + 1
           in == [name |-> name, description |-> description]
       IN  /\ categoriesSeq' = id
           /\ IF CategoryNameTaken(id, name)
              THEN /\ categories' = categories
                   /\ call' = [call EXCEPT ![w] =
                        Done("category.Create", 0, in, ErrDuplicatedCategory, <<>>, 0)]
              ELSE LET row == [name |-> name, description |-> description, version |-> 1]
                   IN  /\ categories' = Put(categories, id, row)
                       /\ call' = [call EXCEPT ![w] =
                            Done("category.Create", id, in, OK, <<[id |-> id] @@ row>>, 0)]
    /\ UNCHANGED <<products, productsSeq, cartTables, auth, responses>>

\* GetByID and List: the fragments are concatenated onto "WHERE 1=1" in the
\* order sort, name, id, limit/offset.  A fragment is a token tuple, <<>> when
\* the filter field is the zero value.
FormatSort(column) == IF column # "" THEN <<"ORDER BY", column>> ELSE <<>>
\* fmt.Sprintf("AND %s='%s'", column, value) as the engine reads it: the text
\* between the quotes is one literal unless the value itself holds a quote,
\* which ends the literal and leaves the rest of the value as statement text
Injection == "x' OR '1'='1"
Quoted(value) == IF value = Injection THEN <<"x", "OR", "1", "=", "1">> ELSE <<value>>
FormatAnd(column, value) == IF value # "" THEN <<"AND", column>> \o Quoted(value) ELSE <<>>
\* the fragment left out whatever the value
FormatAndIntNever(column, value) == <<>>
FormatAndInt(column, value) == IF value # 0 THEN <<"AND", column, value>> ELSE <<>>
FormatLimitOffset(limit, offset) ==
    IF limit > 0 /\ offset > 0 THEN <<"LIMIT", limit, "OFFSET", offset>>
    ELSE IF limit > 0 THEN <<"LIMIT", limit>>
    ELSE IF offset > 0 THEN <<"OFFSET", offset>>
    ELSE <<>>

NonEmpty(frags) == SelectSeq(frags, LAMBDA f : f # <<>>)

\* The statement the engine receives: the fragments after "WHERE 1=1", in order.
CategoryListQuery(filter) ==
    NonEmpty(<< FormatSort(filter.Sort),
                FormatAnd("name", filter.Name),
                FormatAndInt("id", filter.ID),
                FormatLimitOffset(filter.Limit, filter.Offset) >>)

\* An AND fragment that follows ORDER BY is parsed as part of the sort
\* expression (ORDER BY name AND id='1'): the engine rejects the statement,
\* the operand of AND is not boolean.
QueryRejected(q) ==
    \E i, j \in 1..Len(q) : i < j /\ q[i][1] = "ORDER BY" /\ q[j][1] = "AND"

\* The WHERE clause on one row: 1=1 AND p1 AND p2 ..., where an OR inside a
\* fragment closes the conjunction before it (AND binds tighter than OR) and
\* opens the next with the comparison that follows it.  `acc` is the value of
\* the conjunction so far.
RECURSIVE WhereFrom(_, _, _, _, _)
WhereFrom(id, row, q, i, acc) ==
    IF i > Len(q) THEN acc
    ELSE IF q[i][1] # "AND" THEN WhereFrom(id, row, q, i + 1, acc)
    ELSE LET pred == IF q[i][2] = "id" THEN id = q[i][3] ELSE row[q[i][2]] = q[i][3]
         IN  IF Len(q[i]) = 3 THEN WhereFrom(id, row, q, i + 1, acc /\ pred)
             ELSE (acc /\ pred) \/ WhereFrom(id, row, q, i + 1, q[i][5] = q[i][7])
RowMatches(id, row, q) == WhereFrom(id, row, q, 1, TRUE)

RECURSIVE SortedIds(_)
SortedIds(ids) ==
    IF ids = {} THEN <<>>
    ELSE LET m == CHOOSE x \in ids : \A y \in ids : x <= y
         IN  <<m>> \o SortedIds(ids \ {m})

QueryLimit(q) ==
    IF \E i \in 1..Len(q) : q[i][1] = "LIMIT"
    THEN (CHOOSE f \in {q[i] : i \in 1..Len(q)} : f[1] = "LIMIT")[2]
    ELSE -1
QueryOffset(q) ==
    IF \E i \in 1..Len(q) : q[i][1] = "OFFSET"
    THEN (CHOOSE f \in {q[i] : i \in 1..Len(q)} : f[1] = "OFFSET")[2]
    ELSE IF \E i \in 1..Len(q) : q[i][1] = "LIMIT" /\ Len(q[i]) = 4
    THEN (CHOOSE f \in {q[i] : i \in 1..Len(q)} : f[1] = "LIMIT")[4]
    ELSE 0

\* Rows of `table` the statement returns, each with its id column.
\* the statement answered with its first row alone
SelectRowsFirst(table, q) ==
    LET hit == {i \in DOMAIN table : RowMatches(i, table[i], q)}
        ord == SortedIds(hit)
    IN  IF ord = <<>> THEN <<>> ELSE <<[id |-> ord[1]] @@ table[ord[1]]>>
SelectRows(table, q) ==
    LET hit == {i \in DOMAIN table : RowMatches(i, table[i], q)}
        ord == SortedIds(hit)
        all == [k \in 1..Len(ord) |-> [id |-> ord[k]] @@ table[ord[k]]]
        off == QueryOffset(q)
        rest == IF off >= Len(all) THEN <<>> ELSE SubSeq(all, off + 1, Len(all))
        lim == QueryLimit(q)
    IN  IF lim >= 0 /\ lim < Len(rest) THEN SubSeq(rest, 1, lim) ELSE rest

\* categoryStore.List: [err, out]
CategoryListResult(filter) ==
    LET q == CategoryListQuery(filter)
    IN  IF QueryRejected(q) THEN [err |-> ErrInternal, out |-> <<>>]
        ELSE LET rows == SelectRows(categories, q)
             IN  IF Len(rows) = 0 THEN [err |-> ErrNoCategoryFound, out |-> <<>>]
                 ELSE [err |-> OK, out |-> rows]

CategoryList(w, filter) ==
    /\ call[w].pc = "idle"
    /\ LET r == CategoryListResult(filter)
       IN  call' = [call EXCEPT ![w] = Done("category.List", 0, filter, r.err, r.out, 0)]
    /\ UNCHANGED <<tables, responses>>

CategoryGetByID(w, ID) ==
    /\ call[w].pc = "idle"
    /\ LET filter == [ID |-> ID, Name |-> "", Sort |-> "", Limit |-> 0, Offset |-> 0]
           r == CategoryListResult(filter)
       IN  call' = [call EXCEPT ![w] =
                Done("category.GetByID", ID, filter, r.err,
                     IF r.err = OK THEN <<r.out[1]>> ELSE <<>>,
                     StoredVersion(categories, ID))]
    /\ UNCHANGED <<tables, responses>>

\* UPDATE categories SET name = COALESCE(@name, name), ... WHERE id = @id AND
\* version = @version RETURNING *: [sqlstate, rows, table]
Coalesce(arg, column) == IF arg # NULL THEN arg ELSE column
\* the statement without its version predicate (WHERE id = @id)
CategoryUpdateStmtNoVersion(ID, input) ==
    IF ID \notin DOMAIN categories
    THEN [sqlstate |-> "ok", rows |-> <<>>, table |-> categories]
    ELSE LET old == categories[ID]
             new == [name |-> Coalesce(input.name, old.name),
                     description |-> Coalesce(input.description, old.description),
                     version |-> old.version + 1]
         IN  IF CategoryNameTaken(ID, new.name)
             THEN [sqlstate |-> "categories_name_key", rows |-> <<>>, table |-> categories]
             ELSE [sqlstate |-> "ok", rows |-> <<[id |-> ID] @@ new>>,
                   table |-> Put(categories, ID, new)]
\* the statement without "version = version + 1" in its SET list
CategoryUpdateStmtNoBump(ID, input) ==
    IF ~(ID \in DOMAIN categories /\ categories[ID].version = input.version)
    THEN [sqlstate |-> "ok", rows |-> <<>>, table |-> categories]
    ELSE LET old == categories[ID]
             new == [name |-> Coalesce(input.name, old.name),
                     description |-> Coalesce(input.description, old.description),
                     version |-> old.version]
         IN  IF CategoryNameTaken(ID, new.name)
             THEN [sqlstate |-> "categories_name_key", rows |-> <<>>, table |-> categories]
             ELSE [sqlstate |-> "ok", rows |-> <<[id |-> ID] @@ new>>,
                   table |-> Put(categories, ID, new)]
CategoryUpdateStmt(ID, input) ==
    IF ~(ID \in DOMAIN categories /\ categories[ID].version = input.version)
    THEN [sqlstate |-> "ok", rows |-> <<>>, table |-> categories]
    ELSE LET old == categories[ID]
             new == [name |-> Coalesce(input.name, old.name),
                     description |-> Coalesce(input.description, old.description),
                     version |-> old.version + 1]
         IN  IF CategoryNameTaken(ID, new.name)
             THEN [sqlstate |-> "categories_name_key", rows |-> <<>>, table |-> categories]
             ELSE [sqlstate |-> "ok", rows |-> <<[id |-> ID] @@ new>>,
                   table |-> Put(categories, ID, new)]

\* Update without the branch on the constraint name
CategoryUpdateErrUntranslated(st) ==
    IF st.sqlstate # "ok" THEN ErrInternal
    ELSE IF Len(st.rows) = 0 THEN ErrCategoryConflict
    ELSE OK
\* the error categoryStore.Update returns for the statement's outcome
CategoryUpdateErr(st) ==
    IF st.sqlstate = "categories_name_key" THEN ErrDuplicatedCategory
    ELSE IF st.sqlstate # "ok" THEN ErrInternal
    ELSE IF Len(st.rows) = 0 THEN ErrCategoryConflict
    ELSE OK

CategoryUpdate(w, ID, input) ==
    /\ call[w].pc = "idle"
    /\ StoredVersion(categories, ID) < MaxVersion
    /\ LET st == CategoryUpdateStmt(ID, input)
           err == CategoryUpdateErr(st)
       IN  /\ categories' = st.table
           /\ call' = [call EXCEPT ![w] =
                Done("category.Update", ID, input, err,
                     IF err = OK THEN st.rows ELSE <<>>,
                     StoredVersion(categories, ID))]
    /\ UNCHANGED <<categoriesSeq, products, productsSeq, cartTables, auth, responses>>

\* Server.updateCategoryHandler: the status written for an error of Update
UpdateCategoryStatus(err) ==
    IF err = ErrDuplicatedCategory THEN "StatusBadRequest"
    ELSE "StatusInternalServerError"

\* CategoryUpdate.Validate: a name or a description that is set is not empty
CategoryUpdateValidate(input) ==
    IF input.name = "" THEN errCategoryNameRequired
    ELSE IF input.description = "" THEN errCategoryDescriptionRequired
    ELSE OK

\* Server.updateCategoryHandler: Validate, categoryStore.Update, the response
UpdateCategoryHandler(w, ID, input) ==
    /\ call[w].pc = "idle"
    /\ StoredVersion(categories, ID) < MaxVersion
    /\ IF CategoryUpdateValidate(input) # OK
       THEN /\ call' = [call EXCEPT ![w] =
                    Done("http.updateCategory", ID, input,
                         CategoryUpdateValidate(input), <<>>, 0)]
            /\ responses' = Written(w, "StatusBadRequest",
                                    CategoryUpdateValidate(input))
            /\ UNCHANGED categories
       ELSE LET st == CategoryUpdateStmt(ID, input)
                err == CategoryUpdateErr(st)
            IN  /\ categories' = st.table
                /\ call' = [call EXCEPT ![w] =
                        Done("http.updateCategory", ID, input, err,
                             IF err = OK THEN st.rows ELSE <<>>,
                             StoredVersion(categories, ID))]
                /\ responses' = Written(w, IF err = OK THEN "StatusOK"
                                           ELSE UpdateCategoryStatus(err), err)
    /\ UNCHANGED <<categoriesSeq, products, productsSeq, cartTables, auth>>

\* Server.listCategoriesHandler: the query parameters become the filter, the
\* error of categoryStore.List becomes the response
ListCategoriesStatus(err) ==
    IF err = OK THEN "StatusOK"
    ELSE IF err = ErrNoCategoryFound THEN "StatusNotFound"
    ELSE "StatusInternalServerError"

ListCategoriesHandler(w, filter) ==
    /\ call[w].pc = "idle"
    /\ LET r == CategoryListResult(filter)
       IN  /\ call' = [call EXCEPT ![w] =
                    Done("http.listCategories", 0, filter, r.err, r.out, 0)]
           /\ responses' = Written(w, ListCategoriesStatus(r.err), r.err)
    /\ UNCHANGED tables

\* DELETE FROM categories WHERE id = @id, with the ON DELETE CASCADE of
\* products.category_id and, through the products, of carts.product_id:
\* [affected, table, products, carts]
\* the statement with a products foreign key that does not cascade
CategoryDeleteStmtNoCascade(ID) ==
    IF ID \in DOMAIN categories
    THEN [affected |-> 1, table |-> Drop(categories, {ID}),
          products |-> products, carts |-> carts]
    ELSE [affected |-> 0, table |-> categories, products |-> products, carts |-> carts]
CategoryDeleteStmt(ID) ==
    IF ID \in DOMAIN categories
    THEN LET gone == {i \in DOMAIN products : products[i].category_id = ID}
         IN  [affected |-> 1, table |-> Drop(categories, {ID}),
              products |-> Drop(products, gone),
              carts |-> Drop(carts, {c \in DOMAIN carts : carts[c].product_id \in gone})]
    ELSE [affected |-> 0, table |-> categories, products |-> products, carts |-> carts]

\* Delete that tests the affected-row count for "more than one"
CategoryDeleteErrLax(affected) == IF affected > 1 THEN ErrNoCategoryFound ELSE OK
\* the error categoryStore.Delete returns for the affected-row count
CategoryDeleteErr(affected) == IF affected # 1 THEN ErrNoCategoryFound ELSE OK

CategoryDelete(w, ID) ==
    /\ call[w].pc = "idle"
    /\ ~CategoryPinned(ID)
    /\ LET st == CategoryDeleteStmt(ID)
       IN  /\ categories' = st.table
           /\ products' = st.products
           /\ carts' = st.carts
           /\ call' = [call EXCEPT ![w] =
                Done("category.Delete", ID, NoInput, CategoryDeleteErr(st.affected),
                     <<>>, StoredVersion(categories, ID))]
    /\ UNCHANGED <<categoriesSeq, productsSeq, users, usersSeq, cartsSeq, auth, responses>>

\* ------------------------------------------------------------- ProductStore
\* INSERT INTO products(...) VALUES(...) RETURNING id, version, inside a
\* transaction: the statement, then (on success) the commit as its own step.
ProductCreate(w, product) ==
    /\ call[w].pc = "idle"
    /\ productsSeq < MaxProducts
    /\ ~NameInDoubt(w, product.name)
    /\ LET id == productsSeq + 1
           row == [name |-> product.name, description |-> product.description,
                   category_id |-> product.category_id, price |-> product.price,
                   quantity |-> product.quantity, version |-> 1]
       IN  /\ productsSeq' = id
           /\ call' = [call EXCEPT ![w] =
                IF ProductNameTaken(id, product.name)
                THEN Done("product.Create", 0, product, ErrDuplicatedProduct, <<>>, 0)
                ELSE IF product.category_id \notin DOMAIN categories
                THEN Done("product.Create", 0, product, ErrInvalidProductCategory, <<>>, 0)
                ELSE [pc |-> "locked", op |-> "product.Create", id |-> id, in |-> product,
                      err |-> OK, out |-> <<row>>, seen |-> 0, read |-> 0]]
    /\ UNCHANGED <<categories, categoriesSeq, products, cartTables, auth, responses>>

\* ProductCreate.Validate: the first field of the body that is empty or zero
ProductCreateValidate(input) ==
    IF input.name = "" THEN errProductNameRequired
    ELSE IF input.description = "" THEN errProductDescriptionRequired
    ELSE IF input.quantity = 0 THEN errQuantityRequired
    ELSE IF input.price = 0 THEN errPriceRequired
    ELSE IF input.category_id = 0 THEN errCategoryIDRequired
    ELSE OK

\* Server.createProductHandler: the status written for an error of Create
CreateProductStatus(err) ==
    IF err \in {ErrInvalidProductCategory, ErrDuplicatedProduct}
    THEN "StatusBadRequest" ELSE "StatusInternalServerError"

\* Server.createProductHandler up to the statement of ProductStore.Create: a
\* failed Validate writes its 400 and the handler goes on (the branch has no
\* return) to CreateModel and Create; the commit and the 201 are ProductCommit
CreateProductHandler(w, input) ==
    /\ call[w].pc = "idle"
    /\ productsSeq < MaxProducts
    /\ ~NameInDoubt(w, input.name)
    /\ LET invalid == ProductCreateValidate(input)
           validated == IF invalid # OK
                        THEN Written(w, "StatusBadRequest", invalid)
                        ELSE responses
           id == productsSeq + 1
           row == [name |-> input.name, description |-> input.description,
                   category_id |-> input.category_id, price |-> input.price,
                   quantity |-> input.quantity, version |-> 1]
           err == IF ProductNameTaken(id, input.name) THEN ErrDuplicatedProduct
                  ELSE IF input.category_id \notin DOMAIN categories
                  THEN ErrInvalidProductCategory
                  ELSE OK
       IN  /\ productsSeq' = id
           /\ call' = [call EXCEPT ![w] =
                IF err # OK
                THEN Done("http.createProduct", 0, input, err, <<>>, 0)
                ELSE [pc |-> "locked", op |-> "http.createProduct", id |-> id,
                      in |-> input, err |-> OK, out |-> <<row>>, seen |-> 0,
                      read |-> 0]]
           /\ responses' = IF err # OK
                            THEN [validated EXCEPT ![w] =
                                    Append(@, [code |-> CreateProductStatus(err),
                                               message |-> ErrorText(err)])]
                            ELSE validated
    /\ UNCHANGED <<categories, categoriesSeq, products, cartTables, auth>>

\* UPDATE products SET name = @name, ..., version = version + 1 WHERE id = @id
\* AND version = @version RETURNING version, on the committed rows:
\* [sqlstate, rows]; rows holds the new row when one matched.
\* the statement without its version predicate (WHERE id = @id)
ProductUpdateStmtNoVersion(product) ==
    IF product.id \notin DOMAIN products
    THEN [sqlstate |-> "ok", rows |-> <<>>]
    ELSE IF ProductNameTaken(product.id, product.name)
    THEN [sqlstate |-> "products_name_key", rows |-> <<>>]
    ELSE IF product.category_id \notin DOMAIN categories
    THEN [sqlstate |-> "products_category_id_fkey", rows |-> <<>>]
    ELSE [sqlstate |-> "ok",
          rows |-> <<[name |-> product.name, description |-> product.description,
                      category_id |-> product.category_id, price |-> product.price,
                      quantity |-> product.quantity,
                      version |-> products[product.id].version + 1]>>]
ProductUpdateStmt(product) ==
    IF ~(product.id \in DOMAIN products /\ products[product.id].version = product.version)
    THEN [sqlstate |-> "ok", rows |-> <<>>]
    ELSE IF ProductNameTaken(product.id, product.name)
    THEN [sqlstate |-> "products_name_key", rows |-> <<>>]
    ELSE IF product.category_id \notin DOMAIN categories
    THEN [sqlstate |-> "products_category_id_fkey", rows |-> <<>>]
    ELSE [sqlstate |-> "ok",
          rows |-> <<[name |-> product.name, description |-> product.description,
                      category_id |-> product.category_id, price |-> product.price,
                      quantity |-> product.quantity,
                      version |-> products[product.id].version + 1]>>]

\* Update that reports pgx.ErrNoRows as the not-found error
ProductUpdateErrNotFound(st) ==
    IF st.sqlstate = "products_category_id_fkey" THEN ErrInvalidProductCategory
    ELSE IF st.sqlstate = "products_name_key" THEN ErrDuplicatedProduct
    ELSE IF st.sqlstate # "ok" THEN ErrInternal
    ELSE IF Len(st.rows) = 0 THEN ErrNoProductsFound
    ELSE OK
\* the error ProductStore.Update returns for the statement's outcome
ProductUpdateErr(st) ==
    IF st.sqlstate = "products_category_id_fkey" THEN ErrInvalidProductCategory
    ELSE IF st.sqlstate = "products_name_key" THEN ErrDuplicatedProduct
    ELSE IF st.sqlstate # "ok" THEN ErrInternal
    ELSE IF Len(st.rows) = 0 THEN ErrProductConflict
    ELSE OK

\* Server.updateProductHandler: the status written for an error of GetByID and
\* for an error of Update
GetProductStatus(err) ==
    IF err = ErrNoProductsFound THEN "StatusNotFound" ELSE "StatusInternalServerError"
UpdateProductStatus(err) ==
    IF err \in {ErrInvalidProductCategory, ErrDuplicatedProduct}
    THEN "StatusBadRequest" ELSE "StatusInternalServerError"

\* the statement blocks while another transaction holds the row it matched or
\* an uncommitted claim on the name it writes
ProductUpdateBlocked(w, product) ==
    /\ product.id \in DOMAIN products
    /\ products[product.id].version = product.version
    /\ \/ RowLockedByOther(w, product.id)
       \/ NameInDoubt(w, product.name)

\* ProductStore.Update up to and including the statement; on an error the
\* deferred Rollback ends the transaction and the call returns
ProductUpdateExec(w, op, in, product, read) ==
    /\ StoredVersion(products, product.id) < MaxVersion
    /\ ~ProductUpdateBlocked(w, product)
    /\ LET st == ProductUpdateStmt(product)
           err == ProductUpdateErr(st)
           seen == StoredVersion(products, product.id)
       IN  /\ call' = [call EXCEPT ![w] =
                [pc |-> IF err # OK THEN "done" ELSE "locked", op |-> op,
                 id |-> product.id, in |-> in, err |-> err, out |-> st.rows,
                 seen |-> seen, read |-> read]]
           /\ responses' = IF op = "http.updateProduct" /\ err # OK
                            THEN Written(w, UpdateProductStatus(err), err)
                            ELSE responses
    /\ UNCHANGED tables

ProductUpdate(w, product) ==
    /\ call[w].pc = "idle"
    /\ ProductUpdateExec(w, "product.Update", product, product, 0)

\* tx.Commit of ProductStore.Create / Update: the pending row becomes visible
ProductCommit(w) ==
    /\ call[w].pc = "locked"
    /\ call[w].op \in {"product.Create", "product.Update", "http.updateProduct",
                       "http.createProduct"}
    /\ products' = Put(products, call[w].id, call[w].out[1])
    /\ call' = [call EXCEPT ![w].pc = "done",
                            ![w].out = <<[id |-> call[w].id] @@ call[w].out[1]>>]
    /\ responses' = IF call[w].op = "http.updateProduct"
                     THEN Written(w, "StatusOK", OK)
                     ELSE IF call[w].op = "http.createProduct"
                     THEN Written(w, "StatusCreated", OK)
                     ELSE responses
    /\ UNCHANGED <<categories, categoriesSeq, productsSeq, cartTables, auth>>

\* the carts left by the ON DELETE CASCADE of carts.product_id
\* the foreign key without its cascade
ProductDeleteNoCascade(ID) == carts
ProductDeleteCascade(ID) == Drop(carts, {c \in DOMAIN carts : carts[c].product_id = ID})

\* ProductStore.Delete up to and including DELETE FROM products WHERE id = @id:
\* no row affected returns ErrNoProductsFound (the deferred Rollback ends the
\* transaction); otherwise the row and the carts of the cascade stay locked
\* until the commit
ProductDelete(w, ID) ==
    /\ call[w].pc = "idle"
    /\ ~RowLockedByOther(w, ID)
    /\ call' = [call EXCEPT ![w] =
            IF ID \notin DOMAIN products
            THEN Done("product.Delete", ID, NoInput, ErrNoProductsFound, <<>>, 0)
            ELSE [pc |-> "locked", op |-> "product.Delete", id |-> ID, in |-> NoInput,
                  err |-> OK, out |-> <<>>, seen |-> 0, read |-> 0]]
    /\ UNCHANGED <<tables, responses>>

\* tx.Commit of ProductStore.Delete
ProductDeleteCommit(w) ==
    /\ call[w].pc = "locked"
    /\ call[w].op = "product.Delete"
    /\ products' = Drop(products, {call[w].id})
    /\ carts' = ProductDeleteCascade(call[w].id)
    /\ call' = [call EXCEPT ![w].pc = "done"]
    /\ UNCHANGED <<categories, categoriesSeq, productsSeq, users, usersSeq, cartsSeq, auth, responses>>

\* -------------------------------------------- request timeout, cancellation
\* The state of <<categories, products, carts>> the engine leaves for a
\* statement or a COMMIT that was in flight when the caller stopped waiting:
\* the caller's connection is closed, the engine either had run it to its end
\* or aborts it
\* an engine that stops a statement after its first table
InFlightOutcomesTorn(before, after) ==
    {before, after, <<after[1], before[2], before[3]>>}
InFlightOutcomes(before, after) == {before, after}

\* The state the engine leaves for an open transaction whose connection is
\* closed before COMMIT is sent (tx.Commit on a context that is done, then the
\* deferred tx.Rollback)
\* a transaction that stays applied when it is abandoned
RollbackKeeps(before, after) == after
Rollback(before, after) == before

\* what tx.Commit of worker w's open transaction makes of the three tables
Committed(w) ==
    IF call[w].op = "product.Delete"
    THEN <<categories, Drop(products, {call[w].id}), ProductDeleteCascade(call[w].id)>>
    ELSE <<categories, Put(products, call[w].id, call[w].out[1]), carts>>

\* categoryStore.Update whose request context ends while the UPDATE is in
\* flight: db.Query / CollectOneRow return the context's error
CategoryUpdateTimeout(w, ID, input) ==
    /\ call[w].pc = "idle"
    /\ StoredVersion(categories, ID) < MaxVersion
    /\ LET st == CategoryUpdateStmt(ID, input)
       IN  \E o \in InFlightOutcomes(<<categories, products, carts>>,
                                     <<st.table, products, carts>>) :
                /\ categories' = o[1]
                /\ products' = o[2]
                /\ carts' = o[3]
    /\ call' = [call EXCEPT ![w] =
            Done("category.Update", ID, input, ErrDeadlineExceeded, <<>>,
                 StoredVersion(categories, ID))]
    /\ UNCHANGED <<categoriesSeq, productsSeq, users, usersSeq, cartsSeq, auth, responses>>

\* categoryStore.Delete whose request context ends while the DELETE and its
\* cascade are in flight
CategoryDeleteTimeout(w, ID) ==
    /\ call[w].pc = "idle"
    /\ ~CategoryPinned(ID)
    /\ LET st == CategoryDeleteStmt(ID)
       IN  \E o \in InFlightOutcomes(<<categories, products, carts>>,
                                     <<st.table, st.products, st.carts>>) :
                /\ categories' = o[1]
                /\ products' = o[2]
                /\ carts' = o[3]
    /\ call' = [call EXCEPT ![w] =
            Done("category.Delete", ID, NoInput, ErrDeadlineExceeded, <<>>,
                 StoredVersion(categories, ID))]
    /\ UNCHANGED <<categoriesSeq, productsSeq, users, usersSeq, cartsSeq, auth, responses>>

\* ProductStore.Create / Update / Delete whose request context ends between
\* the statement and tx.Commit: Commit returns the context's error without a
\* round trip and the deferred Rollback gives the transaction up
ProductAbort(w) ==
    /\ call[w].pc = "locked"
    /\ call[w].op \in {"product.Create", "product.Update", "product.Delete"}
    /\ LET o == Rollback(<<categories, products, carts>>, Committed(w))
       IN  /\ categories' = o[1]
           /\ products' = o[2]
           /\ carts' = o[3]
    /\ call' = [call EXCEPT ![w].pc = "done", ![w].err = ErrCanceled, ![w].out = <<>>]
    /\ UNCHANGED <<categoriesSeq, productsSeq, users, usersSeq, cartsSeq, auth, responses>>

\* ProductStore.Create / Update / Delete whose request context ends while
\* COMMIT is in flight: tx.Commit returns the context's error wrapped in
\* ErrCommitTransaction
ProductCommitTimeout(w) ==
    /\ call[w].pc = "locked"
    /\ call[w].op \in {"product.Create", "product.Update", "product.Delete"}
    /\ \E o \in InFlightOutcomes(<<categories, products, carts>>, Committed(w)) :
            /\ categories' = o[1]
            /\ products' = o[2]
            /\ carts' = o[3]
    /\ call' = [call EXCEPT ![w].pc = "done", ![w].err = ErrDeadlineExceeded,
                            ![w].out = <<>>]
    /\ UNCHANGED <<categoriesSeq, productsSeq, users, usersSeq, cartsSeq, auth, responses>>

\* ProductStore.List / GetByID: [err, out]
ProductListQuery(filter) ==
    NonEmpty(<< FormatSort(filter.Sort),
                FormatAndInt("category_id", filter.CategoryID),
                FormatAndInt("id", filter.ID),
                FormatLimitOffset(filter.Limit, filter.Offset) >>)
ProductListResult(filter) ==
    LET q == ProductListQuery(filter)
    IN  IF QueryRejected(q) THEN [err |-> ErrInternal, out |-> <<>>]
        ELSE LET rows == SelectRows(products, q)
             IN  IF Len(rows) = 0 THEN [err |-> ErrNoProductsFound, out |-> <<>>]
                 ELSE [err |-> OK, out |-> rows]
ProductGetByIDResult(ID) ==
    LET r == ProductListResult([ID |-> ID, CategoryID |-> 0, Sort |-> "",
                                Limit |-> 0, Offset |-> 0])
    IN  [err |-> r.err, out |-> IF r.err = OK THEN <<r.out[1]>> ELSE <<>>]

\* ProductUpdate.UpdateModel: the request's fields over the row read
UpdateModel(input, product) ==
    [id |-> product.id,
     name |-> IF input.name # NULL THEN input.name ELSE product.name,
     description |-> IF input.description # NULL THEN input.description
                     ELSE product.description,
     category_id |-> IF input.category_id # NullInt THEN input.category_id
                     ELSE product.category_id,
     price |-> IF input.price # NullInt THEN input.price ELSE product.price,
     quantity |-> IF input.quantity # NullInt THEN input.quantity ELSE product.quantity,
     version |-> input.version]

\* Server.updateProductHandler, first round trip: GetByID, then UpdateModel
UpdateProductRead(w, ID, input) ==
    /\ call[w].pc = "idle"
    /\ LET r == ProductGetByIDResult(ID)
       IN  /\ call' = [call EXCEPT ![w] =
                IF r.err # OK
                THEN Done("http.updateProduct", ID, input, r.err, <<>>, 0)
                ELSE [pc |-> "read", op |-> "http.updateProduct", id |-> ID,
                      in |-> input, err |-> OK,
                      out |-> <<UpdateModel(input, r.out[1])>>,
                      seen |-> 0, read |-> r.out[1].version]]
           /\ responses' = IF r.err # OK
                            THEN Written(w, GetProductStatus(r.err), r.err)
                            ELSE responses
    /\ UNCHANGED tables

\* Server.updateProductHandler, second round trip: ProductStore.Update
UpdateProductWrite(w) ==
    /\ call[w].pc = "read"
    /\ ProductUpdateExec(w, "http.updateProduct", call[w].in, call[w].out[1],
                         call[w].read)

\* ProductStore.List as a call of its own
ProductList(w, filter) ==
    /\ call[w].pc = "idle"
    /\ LET r == ProductListResult(filter)
       IN  call' = [call EXCEPT ![w] = Done("product.List", 0, filter, r.err, r.out, 0)]
    /\ UNCHANGED <<tables, responses>>

\* ---------------------------------------------------------------- UserStore
\* INSERT INTO users(email, password_hash) ... RETURNING id and the commit.  No
\* other statement of the model waits on a pending users row, so the insert
\* and its commit are one step.
UserCreate(w, email) ==
    /\ call[w].pc = "idle"
    /\ usersSeq < MaxUsers
    /\ ~\E i \in DOMAIN users : users[i].email = email /\ UserRefLocked(i)
    /\ LET id == usersSeq + 1
           in == [email |-> email]
       IN  /\ usersSeq' = id
           /\ IF \E i \in DOMAIN users : users[i].email = email
              THEN /\ users' = users
                   /\ call' = [call EXCEPT ![w] =
                        Done("user.Create", 0, in, ErrDuplicatedUserEmail, <<>>, 0)]
              ELSE /\ users' = Put(users, id, in)
                   /\ call' = [call EXCEPT ![w] =
                        Done("user.Create", id, in, OK, <<[id |-> id] @@ in>>, 0)]
    /\ UNCHANGED <<catalog, carts, cartsSeq, auth, responses>>

\* UserStore.Delete up to and including DELETE FROM users WHERE id = @id
UserDelete(w, ID) ==
    /\ call[w].pc = "idle"
    /\ ~UserRefLocked(ID)
    /\ call' = [call EXCEPT ![w] =
            IF ID \notin DOMAIN users
            THEN Done("user.Delete", ID, NoInput, ErrUserNotFound, <<>>, 0)
            ELSE [pc |-> "locked", op |-> "user.Delete", id |-> ID, in |-> NoInput,
                  err |-> OK, out |-> <<>>, seen |-> 0, read |-> 0]]
    /\ UNCHANGED <<tables, responses>>

\* tx.Commit of UserStore.Delete, with the ON DELETE CASCADE of carts.user_id
\* and tokens.user_id
UserDeleteCommit(w) ==
    /\ call[w].pc = "locked"
    /\ call[w].op = "user.Delete"
    /\ users' = Drop(users, {call[w].id})
    /\ carts' = Drop(carts, {c \in DOMAIN carts : carts[c].user_id = call[w].id})
    /\ tokens' = {t \in tokens : t.user_id # call[w].id}
    /\ call' = [call EXCEPT ![w].pc = "done"]
    /\ UNCHANGED <<catalog, usersSeq, cartsSeq, now, responses>>

\* ---------------------------------------------------------------- cartStore
\* INSERT INTO carts(product_id, quantity, user_id) ... RETURNING id.  The
\* foreign keys are checked against committed rows, user_id first.
\* the product reference checked before the user reference
CartCreateErrProductFirst(cart) ==
    IF cart.product_id \notin DOMAIN products THEN ErrCartInvalidProductID
    ELSE IF cart.user_id \notin DOMAIN users THEN ErrCartInvalidUserID
    ELSE OK
CartCreateErr(cart) ==
    IF cart.user_id \notin DOMAIN users THEN ErrCartInvalidUserID
    ELSE IF cart.product_id \notin DOMAIN products THEN ErrCartInvalidProductID
    ELSE OK

CartCreate(w, cart) ==
    /\ call[w].pc = "idle"
    /\ cartsSeq < MaxCarts
    /\ ~UserRefLocked(cart.user_id)
    /\ cart.user_id \in DOMAIN users => ~ProductRefLocked(cart.product_id)
    /\ LET id == cartsSeq + 1
           err == CartCreateErr(cart)
       IN  /\ cartsSeq' = id
           /\ carts' = IF err = OK THEN Put(carts, id, cart) ELSE carts
           /\ call' = [call EXCEPT ![w] =
                Done("cart.Create", IF err = OK THEN id ELSE 0, cart, err,
                     IF err = OK THEN <<[id |-> id] @@ cart>> ELSE <<>>, 0)]
    /\ UNCHANGED <<catalog, users, usersSeq, auth, responses>>

\* UPDATE carts SET product_id = COALESCE(@product_id, product_id), quantity =
\* COALESCE(@quantity, quantity) WHERE id = @id RETURNING *:
\* [sqlstate, rows, table].  The foreign key is checked when product_id changes.
CoalesceInt(arg, column) == IF arg # NullInt THEN arg ELSE column
\* the statement with the COALESCE arguments swapped: COALESCE(quantity, @quantity)
CartUpdateStmtKeepOld(ID, input) ==
    IF ID \notin DOMAIN carts
    THEN [sqlstate |-> "ok", rows |-> <<>>, table |-> carts]
    ELSE [sqlstate |-> "ok", rows |-> <<[id |-> ID] @@ carts[ID]>>, table |-> carts]
CartUpdateStmt(ID, input) ==
    IF ID \notin DOMAIN carts
    THEN [sqlstate |-> "ok", rows |-> <<>>, table |-> carts]
    ELSE LET old == carts[ID]
             new == [product_id |-> CoalesceInt(input.product_id, old.product_id),
                     quantity |-> CoalesceInt(input.quantity, old.quantity),
                     user_id |-> old.user_id]
         IN  IF new.product_id # old.product_id /\ new.product_id \notin DOMAIN products
             THEN [sqlstate |-> "carts_product_id_fkey", rows |-> <<>>, table |-> carts]
             ELSE [sqlstate |-> "ok", rows |-> <<[id |-> ID] @@ new>>,
                   table |-> Put(carts, ID, new)]

\* the error cartStore.Update returns for the statement's outcome
CartUpdateErr(st) ==
    IF st.sqlstate = "carts_product_id_fkey" THEN ErrCartInvalidProductID
    ELSE IF st.sqlstate # "ok" THEN ErrInternal
    ELSE IF Len(st.rows) = 0 THEN ErrNoCartsFound
    ELSE OK

CartUpdate(w, ID, input) ==
    /\ call[w].pc = "idle"
    /\ ~CartRowLocked(ID)
    /\ (ID \in DOMAIN carts /\ input.product_id # NullInt
            /\ input.product_id # carts[ID].product_id)
       => ~ProductRefLocked(input.product_id)
    /\ LET st == CartUpdateStmt(ID, input)
           err == CartUpdateErr(st)
       IN  /\ carts' = st.table
           /\ call' = [call EXCEPT ![w] =
                Done("cart.Update", ID, input, err,
                     IF err = OK THEN st.rows ELSE <<>>, 0)]
    /\ UNCHANGED <<catalog, users, usersSeq, cartsSeq, auth, responses>>

\* cartStore.List / GetByID: [err, out]
CartListQuery(filter) ==
    NonEmpty(<< FormatSort(filter.Sort),
                FormatAndInt("id", filter.ID),
                FormatAndInt("user_id", filter.UserID),
                FormatLimitOffset(filter.Limit, filter.Offset) >>)
CartListResult(filter) ==
    LET q == CartListQuery(filter)
    IN  IF QueryRejected(q) THEN [err |-> ErrInternal, out |-> <<>>]
        ELSE LET rows == SelectRows(carts, q)
             IN  IF Len(rows) = 0 THEN [err |-> ErrNoCartsFound, out |-> <<>>]
                 ELSE [err |-> OK, out |-> rows]
CartGetByIDResult(ID) ==
    LET r == CartListResult([ID |-> ID, UserID |-> 0, Sort |-> "",
                             Limit |-> 0, Offset |-> 0])
    IN  [err |-> r.err, out |-> IF r.err = OK THEN <<r.out[1]>> ELSE <<>>]

CartList(w, filter) ==
    /\ call[w].pc = "idle"
    /\ LET r == CartListResult(filter)
       IN  call' = [call EXCEPT ![w] = Done("cart.List", 0, filter, r.err, r.out, 0)]
    /\ UNCHANGED <<tables, responses>>

CartGetByID(w, ID) ==
    /\ call[w].pc = "idle"
    /\ LET r == CartGetByIDResult(ID)
       IN  call' = [call EXCEPT ![w] = Done("cart.GetByID", ID, NoInput, r.err, r.out, 0)]
    /\ UNCHANGED <<tables, responses>>

\* DELETE FROM carts WHERE id = @id, autocommitted
CartDelete(w, ID) ==
    /\ call[w].pc = "idle"
    /\ ~CartRowLocked(ID)
    /\ carts' = Drop(carts, {ID})
    /\ call' = [call EXCEPT ![w] =
            Done("cart.Delete", ID, NoInput,
                 IF ID \in DOMAIN carts THEN OK ELSE ErrNoCartsFound, <<>>, 0)]
    /\ UNCHANGED <<catalog, users, usersSeq, cartsSeq, auth, responses>>

\* ------------------------------------------------------- UserStore (reads)
FormatAndOp(c, v) == IF v # "" THEN <<"AND", c>> \o Quoted(v) ELSE <<>>
FormatAndIntOp(s, v) == IF v # 0 THEN <<"AND", s, v>> ELSE <<>>
\* UserStore.List puts the equality fragments before the sort fragment
UserListQuery(filter) ==
    NonEmpty(<< FormatAndOp("email", filter.Email),
                FormatAndIntOp("id", filter.ID),
                FormatSort(filter.Sort),
                FormatLimitOffset(filter.Limit, filter.Offset) >>)
UserListResult(filter) ==
    LET q == UserListQuery(filter)
    IN  IF QueryRejected(q) THEN [err |-> ErrInternal, out |-> <<>>]
        ELSE LET rows == SelectRows(users, q)
             IN  IF Len(rows) = 0 THEN [err |-> ErrNoUserToList, out |-> <<>>]
                 ELSE [err |-> OK, out |-> rows]
UserGetByIDResult(ID) ==
    LET r == UserListResult([ID |-> ID, Email |-> "", Sort |-> "",
                             Limit |-> 0, Offset |-> 0])
    IN  [err |-> r.err, out |-> IF r.err = OK THEN <<r.out[1]>> ELSE <<>>]

UserList(w, filter) ==
    /\ call[w].pc = "idle"
    /\ LET r == UserListResult(filter)
       IN  call' = [call EXCEPT ![w] = Done("user.List", 0, filter, r.err, r.out, 0)]
    /\ UNCHANGED <<tables, responses>>

UserGetByID(w, ID) ==
    /\ call[w].pc = "idle"
    /\ LET r == UserGetByIDResult(ID)
       IN  call' = [call EXCEPT ![w] = Done("user.GetByID", ID, NoInput, r.err, r.out, 0)]
    /\ UNCHANGED <<tables, responses>>

\* ProductStore.GetByID as a call of its own
ProductGetByID(w, ID) ==
    /\ call[w].pc = "idle"
    /\ LET r == ProductGetByIDResult(ID)
       IN  call' = [call EXCEPT ![w] =
                Done("product.GetByID", ID, NoInput, r.err, r.out, 0)]
    /\ UNCHANGED <<tables, responses>>

\* --------------------------------------------------------------- TokenStore
\* HashToken: the SHA-256 digest of the plain token, a value of its own kind
\* (no digest equals a plain token, distinct plain tokens have distinct digests)
HashToken(s) == <<"sha256", s>>
\* GenerateToken: [Hashed, Plain, UserID, Expiry], Expiry = time.Now().Add(expiry)
GenerateToken(id, plain, expiry) ==
    [Hashed |-> HashToken(plain), Plain |-> plain, UserID |-> id, Expiry |-> now + expiry]

\* the clock advances
Tick ==
    /\ now < MaxTime
    /\ now' = now + 1
    /\ UNCHANGED <<catalog, cartTables, tokens, call, responses>>

\* TokenStore.Create: INSERT INTO tokens(hashed, user_id, expiry), autocommitted;
\* the table has no key of its own, only the foreign key to users
TokenCreate(w, token) ==
    /\ call[w].pc = "idle"
    /\ ~UserRefLocked(token.UserID)
    /\ IF token.UserID \notin DOMAIN users
       THEN /\ tokens' = tokens
            /\ call' = [call EXCEPT ![w] =
                    Done("token.Create", 0, token, ErrForeinKeyViolation, <<>>, 0)]
       ELSE /\ tokens' = tokens \cup {[hashed |-> token.Hashed, user_id |-> token.UserID,
                                       expiry |-> token.Expiry]}
            /\ call' = [call EXCEPT ![w] = Done("token.Create", 0, token, OK, <<>>, 0)]
    /\ UNCHANGED <<catalog, cartTables, now, responses>>

\* SELECT id, email, password_hash FROM users INNER JOIN tokens ON users.id =
\* tokens.user_id WHERE tokens.hashed = @hashed AND tokens.expiry > NOW(): the
\* token rows that yield a result row
\* the statement without AND tokens.expiry > NOW()
TokenRowsAnyExpiry(hashed) ==
    {t \in tokens : t.hashed = hashed /\ t.user_id \in DOMAIN users}
TokenRows(hashed) ==
    {t \in tokens : t.hashed = hashed /\ t.user_id \in DOMAIN users /\ t.expiry > now}

\* the error GetUserID returns for the outcome of pgx.CollectOneRow: with no
\* row CollectOneRow returns pgx.ErrNoRows, which GetUserID wraps with %v
GetUserIDErr(rows) == IF rows = {} THEN ErrInternal ELSE OK

\* TokenStore.GetUserID: the id of the first result row; the statement has no
\* ORDER BY, any matching row may come first
GetUserID(w, plainToken) ==
    /\ call[w].pc = "idle"
    /\ LET rows == TokenRows(HashToken(plainToken))
           in == [plainToken |-> plainToken]
       IN  IF rows = {}
           THEN call' = [call EXCEPT ![w] =
                    Done("token.GetUserID", 0, in, GetUserIDErr(rows), <<>>, 0)]
           ELSE \E t \in rows :
                    call' = [call EXCEPT ![w] =
                        Done("token.GetUserID", t.user_id, in, GetUserIDErr(rows),
                             <<[id |-> t.user_id] @@ users[t.user_id]>>, 0)]
    /\ UNCHANGED <<tables, responses>>

\* server.authentication for a request with "Authorization: Bearer <token>":
\* the status it answers with, or "next" when the request is passed on
AuthenticationStatus(err) ==
    IF err = OK THEN "next"
    ELSE IF err = ErrInvalidToken THEN "StatusBadRequest"
    ELSE "StatusInternalServerError"

Authentication(w, plainToken) ==
    /\ call[w].pc = "idle"
    /\ LET rows == TokenRows(HashToken(plainToken))
           err == GetUserIDErr(rows)
           in == [plainToken |-> plainToken]
       IN  /\ IF rows = {}
              THEN call' = [call EXCEPT ![w] =
                       Done("http.authentication", 0, in, err,
                            <<AuthenticationStatus(err)>>, 0)]
              ELSE \E t \in rows :
                       call' = [call EXCEPT ![w] =
                           Done("http.authentication", t.user_id, in, err,
                                <<AuthenticationStatus(err)>>, 0)]
           /\ responses' = IF err # OK
                            THEN Written(w, AuthenticationStatus(err), err)
                            ELSE responses
    /\ UNCHANGED tables

\* -------------------------------------------------------------- SearchStore
\* to_tsvector('simple', name): the lower-cased words of the name
ToTsVector(name) ==
    CASE name = "a" -> {"a"}
      [] name = "b" -> {"b"}
      [] name = "a b" -> {"a", "b"}
      [] OTHER -> {}
\* to_tsquery('simple', query): [ok, op, terms]; words must be joined by an
\* operator, two words side by side are a syntax error; the empty string is a
\* query that matches nothing
ToTsQuery(query) ==
    CASE query = "a" -> [ok |-> TRUE, op |-> "&", terms |-> {"a"}]
      [] query = "b" -> [ok |-> TRUE, op |-> "&", terms |-> {"b"}]
      [] query = "a & b" -> [ok |-> TRUE, op |-> "&", terms |-> {"a", "b"}]
      [] query = "a | b" -> [ok |-> TRUE, op |-> "|", terms |-> {"a", "b"}]
      [] query = "" -> [ok |-> TRUE, op |-> "|", terms |-> {}]
      [] OTHER -> [ok |-> FALSE, op |-> "", terms |-> {}]
\* tsvector @@ tsquery
TsMatch(vector, tsquery) ==
    IF tsquery.op = "&"
    THEN tsquery.terms # {} /\ tsquery.terms \subseteq vector
    ELSE tsquery.terms \cap vector # {}

\* fullSearchName: SELECT * FROM table WHERE to_tsvector('simple', name) @@
\* to_tsquery('simple', @query), the rows with their id column
\* the statement without its WHERE clause
fullSearchNameAll(table, query) ==
    LET ord == SortedIds(DOMAIN table)
    IN  [k \in 1..Len(ord) |-> [id |-> ord[k]] @@ table[ord[k]]]
fullSearchName(table, query) ==
    LET hit == {i \in DOMAIN table :
                    TsMatch(ToTsVector(table[i].name), ToTsQuery(query))}
        ord == SortedIds(hit)
    IN  [k \in 1..Len(ord) |-> [id |-> ord[k]] @@ table[ord[k]]]

\* domain.Search{Categories: &c} and domain.Search{Prodcuts: &p}: a nil pointer
\* is <<>>, a set one <<row>>
CategoryHits(rows) == [k \in 1..Len(rows) |-> [Prodcuts |-> <<>>, Categories |-> <<rows[k]>>]]
\* the product rows dropped from the result
ProductHitsNone(rows) == <<>>
ProductHits(rows) == [k \in 1..Len(rows) |-> [Prodcuts |-> <<rows[k]>>, Categories |-> <<>>]]

\* log.Fatal: the process exits, every request goroutine with it
Exited(w, op, in) ==
    [v \in Workers |->
        IF v = w
        THEN [pc |-> "exited", op |-> op, id |-> 0, in |-> in, err |-> ErrInternal,
              out |-> <<>>, seen |-> 0, read |-> 0]
        ELSE [call[v] EXCEPT !.pc = "exited"]]

\* SearchStore.Search, first statement: the categories; a query the engine
\* rejects ends in log.Fatal
SearchCategories(w, query) ==
    /\ call[w].pc = "idle"
    /\ LET in == [query |-> query]
       IN  call' = IF ~ToTsQuery(query).ok
                   THEN Exited(w, "search.Search", in)
                   ELSE [call EXCEPT ![w] =
                            [pc |-> "searching", op |-> "search.Search", id |-> 0,
                             in |-> in, err |-> OK,
                             out |-> CategoryHits(fullSearchName(categories, query)),
                             seen |-> 0, read |-> 0]]
    /\ UNCHANGED <<tables, responses>>

\* SearchStore.Search, second statement: the products, appended
SearchProducts(w) ==
    /\ call[w].pc = "searching"
    /\ LET results == call[w].out
                       \o ProductHits(fullSearchName(products, call[w].in.query))
       IN  call' = [call EXCEPT ![w] =
                IF Len(results) = 0
                THEN Done("search.Search", 0, call[w].in, ErrNoSearchResult, <<>>, 0)
                ELSE Done("search.Search", 0, call[w].in, OK, results, 0)]
    /\ UNCHANGED <<tables, responses>>

\* the worker hands the response back and takes the next request
Return(w) ==
    /\ call[w].pc = "done"
    /\ call' = [call EXCEPT ![w] = Idle]
    /\ responses' = [responses EXCEPT ![w] = <<>>]
    /\ UNCHANGED tables

\* ------------------------------------------------------------ input sets
CategoryIDs == 1..MaxCategories
ProductIDs == 1..MaxProducts
CategoryFilters ==
    [ID : 0..MaxCategories, Name : {""} \cup Names, Sort : {"", "name"},
     Limit : {0, 1}, Offset : {0, 1}]
CategoryUpdates ==
    [name : Names \cup {NULL}, description : Descriptions \cup {NULL},
     version : 1..MaxVersion]
ProductInputs ==
    [name : Names, description : {"x"}, category_id : CategoryIDs,
     price : Prices, quantity : Quantities]
ProductStructs ==
    [id : ProductIDs, name : Names, description : {"x"},
     category_id : CategoryIDs, price : Prices, quantity : Quantities,
     version : 1..MaxVersion]
ProductUpdates ==
    [name : Names \cup {NULL}, description : {NULL},
     category_id : CategoryIDs \cup {NullInt}, price : {NullInt}, quantity : {NullInt},
     version : 1..MaxVersion]
ProductFilters ==
    [ID : 0..MaxProducts, CategoryID : 0..MaxCategories, Sort : {"", "name"},
     Limit : {0, 1}, Offset : {0, 1}]
UserIDs == 1..MaxUsers
CartIDs == 1..MaxCarts
CartInputs == [product_id : ProductIDs, quantity : CartQuantities, user_id : UserIDs]
CartUpdates ==
    [product_id : ProductIDs \cup {NullInt}, quantity : CartQuantities \cup {NullInt}]
CartFilters ==
    [ID : 0..MaxCarts, UserID : 0..MaxUsers, Sort : {""}, Limit : {0}, Offset : {0}]
UserFilters ==
    [ID : 0..MaxUsers, Email : {""} \cup Emails, Sort : {""}, Limit : {0}, Offset : {0}]
SearchNames == {"a", "a b"}
Queries == {"a", "b", "a & b", "a | b", "", "a b"}
SearchProductInputs ==
    [name : SearchNames, description : {"x"}, category_id : CategoryIDs,
     price : Prices, quantity : Quantities]
NameFilters ==
    [ID : 0..MaxCategories, Name : {"", "a", Injection}, Sort : {""},
     Limit : {0}, Offset : {0}]
EmailFilters ==
    [ID : {0}, Email : {"", "e", Injection}, Sort : {""}, Limit : {0}, Offset : {0}]
\* the zero value of each filter struct
\* the bodies of POST /products: valid ones and ones Validate rejects
ProductBodies ==
    [name : Names, description : {"x"}, category_id : {0, 1},
     price : {0} \cup Prices, quantity : Quantities]
\* the bodies of PATCH /categories/{id}
CategoryBodies ==
    [name : Names \cup {NULL, ""}, description : {NULL}, version : 1..MaxVersion]
\* the query strings of GET /categories
CategoryQueries ==
    [ID : {0}, Name : {"", "a"}, Sort : {"", "name"}, Limit : {0}, Offset : {0}]
EmptyCategoryFilter == [ID |-> 0, Name |-> "", Sort |-> "", Limit |-> 0, Offset |-> 0]
EmptyProductFilter == [ID |-> 0, CategoryID |-> 0, Sort |-> "", Limit |-> 0, Offset |-> 0]
EmptyCartFilter == [ID |-> 0, UserID |-> 0, Sort |-> "", Limit |-> 0, Offset |-> 0]
EmptyUserFilter == [ID |-> 0, Email |-> "", Sort |-> "", Limit |-> 0, Offset |-> 0]

\* ------------------------------------------------------------- workloads
\* A response is handed back before the next step of any worker: Return touches
\* nothing but the worker's own record, so no behaviour of the tables is lost.
Quiet == \A v \in Workers : call[v].pc # "done"
\* A product statement reads no column of a category but its id: the workload
\* updates categories before the first product exists, and not after.
NoProductYet == productsSeq = 0
CategoriesFresh == \A i \in DOMAIN categories : categories[i].version = 1

\* Only the responses of `ops` stay with their workers while others run.
Settled(ops) == \A v \in Workers : call[v].pc = "done" => call[v].op \in ops

\* Store calls, one response at a time.
Next ==
    \/ \E w \in Workers, n \in Names, d \in Descriptions :
            Quiet /\ CategoryCreate(w, n, d)
    \/ \E w \in Workers, i \in CategoryIDs, u \in CategoryUpdates :
            Quiet /\ NoProductYet /\ CategoryUpdate(w, i, u)
    \/ \E w \in Workers, i \in CategoryIDs : Quiet /\ CategoryDelete(w, i)
    \/ \E w \in Workers, p \in ProductInputs :
            Quiet /\ CategoriesFresh /\ ProductCreate(w, p)
    \/ \E w \in Workers, p \in ProductStructs : Quiet /\ ProductUpdate(w, p)
    \/ \E w \in Workers : Quiet /\ ProductCommit(w)
    \/ \E w \in Workers : Return(w)

Spec == Init /\ [][Next]_vars

\* Two Update calls in flight: the responses of the updates stay visible
\* together.
RaceOps == {"category.Update", "product.Update"}
NextRace ==
    \/ \E w \in Workers, n \in Names :
            Settled(RaceOps) /\ NoProductYet /\ CategoryCreate(w, n, "x")
    \/ \E w \in Workers, u \in CategoryUpdates :
            /\ Settled(RaceOps) /\ NoProductYet /\ u.description = NULL
            /\ CategoryUpdate(w, 1, u)
    \/ \E w \in Workers, p \in ProductInputs :
            /\ Settled(RaceOps) /\ CategoriesFresh /\ p.category_id = 1
            /\ ProductCreate(w, p)
    \/ \E w \in Workers, p \in ProductStructs :
            Settled(RaceOps) /\ p.id = 1 /\ ProductUpdate(w, p)
    \/ \E w \in Workers : Settled(RaceOps) /\ ProductCommit(w)
    \/ \E w \in Workers : Return(w)

SpecRace == Init /\ [][NextRace]_vars

\* PATCH /products/{id} requests served concurrently.
NextHandler ==
    \/ \E w \in Workers : Quiet /\ NoProductYet /\ CategoryCreate(w, "a", "x")
    \/ \E w \in Workers, p \in ProductInputs :
            Quiet /\ p.category_id = 1 /\ ProductCreate(w, p)
    \/ \E w \in Workers, i \in ProductIDs, u \in ProductUpdates :
            Quiet /\ u.category_id = NullInt /\ UpdateProductRead(w, i, u)
    \/ \E w \in Workers : Quiet /\ UpdateProductWrite(w)
    \/ \E w \in Workers : Quiet /\ ProductCommit(w)
    \/ \E w \in Workers : Return(w)

SpecHandler == Init /\ [][NextHandler]_vars

\* The requests of the catalog routes, each answered before the next step;
\* two PATCH /products/{id} requests may be in flight together.
NoneInFlight == \A v \in Workers : call[v].pc = "idle"
NextHTTP ==
    \/ \E w \in Workers, n \in Names :
            NoneInFlight /\ NoProductYet /\ CategoryCreate(w, n, "x")
    \/ \E w \in Workers, b \in CategoryBodies :
            NoneInFlight /\ NoProductYet /\ UpdateCategoryHandler(w, 1, b)
    \/ \E w \in Workers, q \in CategoryQueries :
            NoneInFlight /\ ListCategoriesHandler(w, q)
    \/ \E w \in Workers, b \in ProductBodies :
            NoneInFlight /\ CreateProductHandler(w, b)
    \/ \E w \in Workers, u \in ProductUpdates :
            /\ Quiet /\ u.category_id = NullInt /\ u.name = NULL
            /\ UpdateProductRead(w, 1, u)
    \/ \E w \in Workers : Quiet /\ UpdateProductWrite(w)
    \/ \E w \in Workers : Quiet /\ ProductCommit(w)
    \/ \E w \in Workers : Return(w)

SpecHTTP == Init /\ [][NextHTTP]_vars

\* Reads of both catalog tables while rows come and go.
NextList ==
    \/ \E w \in Workers, n \in Names : Quiet /\ CategoryCreate(w, n, "x")
    \/ \E w \in Workers, i \in CategoryIDs : Quiet /\ CategoryDelete(w, i)
    \/ \E w \in Workers, p \in ProductInputs : Quiet /\ ProductCreate(w, p)
    \/ \E w \in Workers : Quiet /\ ProductCommit(w)
    \/ \E w \in Workers, f \in CategoryFilters : Quiet /\ CategoryList(w, f)
    \/ \E w \in Workers, i \in 1..(MaxCategories + 1) : Quiet /\ CategoryGetByID(w, i)
    \/ \E w \in Workers, f \in ProductFilters : Quiet /\ ProductList(w, f)
    \/ \E w \in Workers : Return(w)

SpecList == Init /\ [][NextList]_vars

\* Carts of one catalog: the responses of cart updates stay visible together.
CartOps == {"cart.Update"}
NextCart ==
    \/ \E w \in Workers, e \in Emails : Settled(CartOps) /\ UserCreate(w, e)
    \/ \E w \in Workers : Settled(CartOps) /\ CategoryCreate(w, "a", "x")
    \/ \E w \in Workers, p \in ProductInputs :
            Settled(CartOps) /\ p.category_id = 1 /\ ProductCreate(w, p)
    \/ \E w \in Workers : Settled(CartOps) /\ ProductCommit(w)
    \/ \E w \in Workers, c \in CartInputs : Settled(CartOps) /\ CartCreate(w, c)
    \/ \E w \in Workers, i \in CartIDs, u \in CartUpdates : CartUpdate(w, i, u)
    \/ \E w \in Workers : Return(w)

SpecCart == Init /\ [][NextCart]_vars

\* Every store: rows created and deleted, then listed and fetched by id.
NextStore ==
    \/ \E w \in Workers, n \in Names : Quiet /\ CategoryCreate(w, n, "x")
    \/ \E w \in Workers, i \in CategoryIDs :
            Settled({"product.Create"}) /\ CategoryDelete(w, i)
    \/ \E w \in Workers, p \in ProductInputs : Quiet /\ ProductCreate(w, p)
    \/ \E w \in Workers : Quiet /\ ProductCommit(w)
    \/ \E w \in Workers, e \in Emails : Quiet /\ UserCreate(w, e)
    \/ \E w \in Workers, c \in CartInputs : Quiet /\ CartCreate(w, c)
    \/ \E w \in Workers, i \in CartIDs : Quiet /\ CartDelete(w, i)
    \/ \E w \in Workers : Quiet /\ CategoryList(w, EmptyCategoryFilter)
    \/ \E w \in Workers : Quiet /\ ProductList(w, EmptyProductFilter)
    \/ \E w \in Workers, f \in CartFilters : Quiet /\ CartList(w, f)
    \/ \E w \in Workers, f \in UserFilters : Quiet /\ UserList(w, f)
    \/ \E w \in Workers, i \in 0..(MaxCategories + 1) : Quiet /\ CategoryGetByID(w, i)
    \/ \E w \in Workers, i \in 0..(MaxProducts + 1) : Quiet /\ ProductGetByID(w, i)
    \/ \E w \in Workers, i \in 0..(MaxCarts + 1) : Quiet /\ CartGetByID(w, i)
    \/ \E w \in Workers, i \in 0..(MaxUsers + 1) : Quiet /\ UserGetByID(w, i)
    \/ \E w \in Workers : Return(w)

SpecStore == Init /\ [][NextStore]_vars

\* Cart writes against users and products that are deleted under them.
NextRef ==
    \/ \E w \in Workers, e \in Emails : Quiet /\ UserCreate(w, e)
    \/ \E w \in Workers : Quiet /\ NoProductYet /\ CategoryCreate(w, "a", "x")
    \/ \E w \in Workers, p \in ProductInputs :
            Quiet /\ p.category_id = 1 /\ ProductCreate(w, p)
    \/ \E w \in Workers : Quiet /\ ProductCommit(w)
    \/ \E w \in Workers, c \in CartInputs : Quiet /\ CartCreate(w, c)
    \/ \E w \in Workers, i \in CartIDs, u \in CartUpdates : Quiet /\ CartUpdate(w, i, u)
    \/ \E w \in Workers, i \in ProductIDs : Quiet /\ ProductDelete(w, i)
    \/ \E w \in Workers : Quiet /\ ProductDeleteCommit(w)
    \/ \E w \in Workers, i \in UserIDs : Quiet /\ UserDelete(w, i)
    \/ \E w \in Workers : Quiet /\ UserDeleteCommit(w)
    \/ \E w \in Workers : Quiet /\ CategoryDelete(w, 1)
    \/ \E w \in Workers : Return(w)

SpecRef == Init /\ [][NextRef]_vars

\* Writes whose request context ends before they return.
NextFault ==
    \/ \E w \in Workers : Quiet /\ UserCreate(w, "e")
    \/ \E w \in Workers, n \in Names : Quiet /\ NoProductYet /\ CategoryCreate(w, n, "x")
    \/ \E w \in Workers, u \in CategoryUpdates :
            /\ Quiet /\ NoProductYet /\ u.description = NULL
            /\ CategoryUpdate(w, 1, u)
    \/ \E w \in Workers, u \in CategoryUpdates :
            /\ Quiet /\ NoProductYet /\ u.description = NULL
            /\ CategoryUpdateTimeout(w, 1, u)
    \/ \E w \in Workers : Quiet /\ CategoryDelete(w, 1)
    \/ \E w \in Workers : Quiet /\ CategoryDeleteTimeout(w, 1)
    \/ \E w \in Workers, p \in ProductInputs :
            Quiet /\ CategoriesFresh /\ p.category_id = 1 /\ ProductCreate(w, p)
    \/ \E w \in Workers, p \in ProductStructs :
            /\ Quiet /\ CategoriesFresh /\ p.id = 1 /\ p.category_id = 1
            /\ ProductUpdate(w, p)
    \/ \E w \in Workers : Quiet /\ ProductDelete(w, 1)
    \/ \E w \in Workers : Quiet /\ ProductCommit(w)
    \/ \E w \in Workers : Quiet /\ ProductDeleteCommit(w)
    \/ \E w \in Workers : Quiet /\ ProductAbort(w)
    \/ \E w \in Workers : Quiet /\ ProductCommitTimeout(w)
    \/ \E w \in Workers, c \in CartInputs :
            /\ Quiet /\ c.quantity = 1 /\ c.user_id = 1 /\ c.product_id = 1
            /\ CartCreate(w, c)
    \/ \E w \in Workers : Return(w)

SpecFault == Init /\ [][NextFault]_vars

\* Delete calls in flight together: the responses of the deletes stay visible.
DeleteOps == {"category.Delete", "product.Delete", "cart.Delete"}
NextDelete ==
    \/ \E w \in Workers, e \in Emails : Settled(DeleteOps) /\ UserCreate(w, e)
    \/ \E w \in Workers, n \in Names :
            Settled(DeleteOps) /\ NoProductYet /\ CategoryCreate(w, n, "x")
    \/ \E w \in Workers, p \in ProductInputs : Settled(DeleteOps) /\ ProductCreate(w, p)
    \/ \E w \in Workers : Settled(DeleteOps) /\ ProductCommit(w)
    \/ \E w \in Workers, c \in CartInputs :
            Settled(DeleteOps) /\ c.quantity = 1 /\ CartCreate(w, c)
    \/ \E w \in Workers, i \in CategoryIDs : Settled(DeleteOps) /\ CategoryDelete(w, i)
    \/ \E w \in Workers, i \in ProductIDs : Settled(DeleteOps) /\ ProductDelete(w, i)
    \/ \E w \in Workers : Settled(DeleteOps) /\ ProductDeleteCommit(w)
    \/ \E w \in Workers, i \in CartIDs : Settled(DeleteOps) /\ CartDelete(w, i)
    \/ \E w \in Workers : Return(w)

SpecDelete == Init /\ [][NextDelete]_vars

\* Tokens issued to users and looked up while the clock runs.
NextToken ==
    \/ \E w \in Workers, e \in Emails : Quiet /\ UserCreate(w, e)
    \/ \E w \in Workers, i \in UserIDs : Quiet /\ UserDelete(w, i)
    \/ \E w \in Workers : Quiet /\ UserDeleteCommit(w)
    \/ \E w \in Workers, i \in UserIDs, s \in Plains, d \in TTLs :
            Quiet /\ TokenCreate(w, GenerateToken(i, s, d))
    \/ \E w \in Workers, s \in Plains : Quiet /\ GetUserID(w, s)
    \/ \E w \in Workers, s \in Plains : Quiet /\ Authentication(w, s)
    \/ Quiet /\ Tick
    \/ \E w \in Workers : Return(w)

SpecToken == Init /\ [][NextToken]_vars

\* Searches over a catalog that changes between their two statements.
NextSearch ==
    \/ \E w \in Workers, n \in SearchNames : Quiet /\ CategoryCreate(w, n, "x")
    \/ \E w \in Workers, i \in CategoryIDs : Quiet /\ CategoryDelete(w, i)
    \/ \E w \in Workers, p \in SearchProductInputs : Quiet /\ ProductCreate(w, p)
    \/ \E w \in Workers : Quiet /\ ProductCommit(w)
    \/ \E w \in Workers, q \in Queries : Quiet /\ SearchCategories(w, q)
    \/ \E w \in Workers : Quiet /\ SearchProducts(w)
    \/ \E w \in Workers : Return(w)

SpecSearch == Init /\ [][NextSearch]_vars

\* Lists filtered by caller-supplied strings.
NextFilter ==
    \/ \E w \in Workers, n \in Names : Quiet /\ CategoryCreate(w, n, "x")
    \/ \E w \in Workers, i \in CategoryIDs : Quiet /\ CategoryDelete(w, i)
    \/ \E w \in Workers, e \in Emails : Quiet /\ UserCreate(w, e)
    \/ \E w \in Workers, f \in NameFilters : Quiet /\ CategoryList(w, f)
    \/ \E w \in Workers, f \in EmailFilters : Quiet /\ UserList(w, f)
    \/ \E w \in Workers : Return(w)

SpecFilter == Init /\ [][NextFilter]_vars

\* ================================================================ properties
UpdateOps == {"category.Update", "product.Update"}
ConflictErr(op) == IF op = "category.Update" THEN ErrCategoryConflict ELSE ErrProductConflict
ConstraintErrs == {ErrDuplicatedCategory, ErrDuplicatedProduct, ErrInvalidProductCategory}
TableOf(op) == IF op = "category.Update" THEN categories ELSE products
\* worker w took a step of its call in this transition
Stepped(w) == call'[w] # call[w]
\* p and q hold the responses of two Update calls on one row that both supplied
\* version N, issued when the row was at N: p's statement met the row at N, q's
\* met it at N or as p left it (no third update came between the two)
Racing(p, q) ==
    /\ p # q
    /\ call[p].pc = "done" /\ call[q].pc = "done"
    /\ call[p].op \in UpdateOps /\ call[q].op = call[p].op
    /\ call[q].id = call[p].id
    /\ call[q].in.version = call[p].in.version
    /\ call[p].seen = call[p].in.version
    /\ call[q].seen \in {call[p].in.version, call[p].in.version + 1}

\* C1 (as amended): of two concurrent Updates of one Product or Category row
\* that both supply the row's version N, neither of which violates a uniqueness
\* or foreign-key constraint, exactly one succeeds, the row is left at N+1, and
\* the other returns the resource's Conflict error.
C1_OneWinnerUnlessConstraint ==
    \A p, q \in Workers :
        (/\ Racing(p, q)
         /\ call[p].err \notin ConstraintErrs
         /\ call[q].err \notin ConstraintErrs)
        => /\ call[p].err = OK
           /\ call[q].err = ConflictErr(call[q].op)
           /\ StoredVersion(TableOf(call[p].op), call[p].id) = call[p].in.version + 1

C1_Witness ==
    \E p, q \in Workers :
        /\ Racing(p, q)
        /\ call[p].op = "product.Update"
        /\ call[p].err = OK
        /\ call[q].err = ErrProductConflict
        /\ products[call[p].id].version = call[p].in.version + 1

\* C1 (as stated): of two concurrent Updates that both supply the row's version
\* N, exactly one succeeds and the other returns Conflict.
C1_OneWinnerAlways ==
    \A p, q \in Workers :
        Racing(p, q)
        => /\ call[p].err = OK
           /\ call[q].err = ConflictErr(call[q].op)

\* C2: a row is created at version 1, every successful Update of a Product or
\* Category row raises its stored version by exactly 1, and nothing else
\* changes a row or its version.
C2_VersionStepsByOne ==
    [][/\ \A i \in DOMAIN categories' :
            IF i \in DOMAIN categories
            THEN categories'[i] # categories[i]
                 => categories'[i].version = categories[i].version + 1
            ELSE categories'[i].version = 1
       /\ \A i \in DOMAIN products' :
            IF i \in DOMAIN products
            THEN products'[i] # products[i]
                 => products'[i].version = products[i].version + 1
            ELSE products'[i].version = 1
       /\ \A w \in Workers :
            (/\ Stepped(w) /\ call'[w].pc = "done" /\ call'[w].err = OK
             /\ call'[w].op = "category.Update")
            => /\ categories'[call'[w].id].version = categories[call'[w].id].version + 1
               /\ call'[w].out[1].version = categories'[call'[w].id].version
       /\ \A w \in Workers :
            (/\ Stepped(w) /\ call'[w].pc = "done" /\ call'[w].err = OK
             /\ call'[w].op = "product.Update")
            => /\ products'[call'[w].id].version = products[call'[w].id].version + 1
               /\ call'[w].out[1].version = products'[call'[w].id].version
      ]_vars

C2_Witness ==
    \E w \in Workers :
        /\ call[w].pc = "done" /\ call[w].op = "product.Update" /\ call[w].err = OK
        /\ call[w].seen = 2
        /\ products[call[w].id].version = 3

\* C3: an Update of an existing Product or Category row whose supplied version
\* differs from the stored version returns the resource's Conflict error and
\* leaves the table as it was.
C3_StaleVersionRejected ==
    [][\A w \in Workers :
        (/\ Stepped(w) /\ call[w].pc = "idle"
         /\ call'[w].op \in UpdateOps
         /\ call'[w].id \in DOMAIN TableOf(call'[w].op)
         /\ TableOf(call'[w].op)[call'[w].id].version # call'[w].in.version)
        => /\ call'[w].pc = "done"
           /\ call'[w].err = ConflictErr(call'[w].op)
           /\ categories' = categories
           /\ products' = products
      ]_vars

C3_Witness ==
    \E w \in Workers :
        /\ call[w].pc = "done" /\ call[w].op = "category.Update"
        /\ call[w].id \in DOMAIN categories
        /\ call[w].seen = 2 /\ call[w].in.version = 1
        /\ categories[call[w].id].version = 2
        /\ call[w].err = ErrCategoryConflict

\* C5: a versioned Update returns the resource's Conflict error exactly when
\* its statement matched no row, be it that no row has the id or that the row's
\* stored version differs from the supplied one; both causes give the same error.
C5_ZeroRowsIsConflict ==
    \A w \in Workers :
        (call[w].pc = "done" /\ call[w].op \in UpdateOps)
        => (call[w].err = ConflictErr(call[w].op)
            <=> (call[w].seen = 0 \/ call[w].seen # call[w].in.version))

C5_Witness ==
    \E w \in Workers :
        /\ call[w].pc = "done" /\ call[w].op = "product.Update"
        /\ call[w].seen = 0 /\ call[w].id \notin DOMAIN products
        /\ products # <<>>
        /\ call[w].err = ErrProductConflict

\* C6: a versioned Update whose statement matches its row and then violates a
\* uniqueness or foreign-key constraint returns the translated error of that
\* constraint (duplicate name, invalid category), not Conflict, and changes
\* nothing.
C6_ConstraintErrorTranslated ==
    [][\A w \in Workers :
        (/\ Stepped(w) /\ call[w].pc = "idle"
         /\ call'[w].op \in UpdateOps
         /\ call'[w].id \in DOMAIN TableOf(call'[w].op)
         /\ TableOf(call'[w].op)[call'[w].id].version = call'[w].in.version)
        => LET id == call'[w].id
               in == call'[w].in
           IN  IF call'[w].op = "category.Update"
               THEN CategoryNameTaken(id, Coalesce(in.name, categories[id].name))
                    => /\ call'[w].err = ErrDuplicatedCategory
                       /\ categories' = categories
               ELSE /\ ProductNameTaken(id, in.name)
                       => call'[w].err = ErrDuplicatedProduct
                    /\ (~ProductNameTaken(id, in.name)
                        /\ in.category_id \notin DOMAIN categories)
                       => call'[w].err = ErrInvalidProductCategory
                    /\ (ProductNameTaken(id, in.name)
                        \/ in.category_id \notin DOMAIN categories)
                       => call'[w].pc = "done" /\ products' = products
      ]_vars

C6_Witness ==
    \E w \in Workers :
        /\ call[w].pc = "done" /\ call[w].op = "category.Update"
        /\ call[w].id = 2 /\ call[w].seen = call[w].in.version
        /\ 1 \in DOMAIN categories /\ call[w].in.name = categories[1].name
        /\ call[w].err = ErrDuplicatedCategory

\* C9: Delete of an id that holds no row (never created, or deleted before)
\* returns the NotFound error and changes nothing; Delete reports success only
\* for a row it removed, and a removed id never holds a row again.
C9_DeleteMissingIsNotFound ==
    [][/\ \A w \in Workers :
            (Stepped(w) /\ call'[w].op = "category.Delete")
            => IF call'[w].id \in DOMAIN categories
               THEN /\ call'[w].err = OK
                    /\ call'[w].id \notin DOMAIN categories'
               ELSE /\ call'[w].err = ErrNoCategoryFound
                    /\ categories' = categories /\ products' = products
       /\ \A i \in 1..categoriesSeq :
            i \notin DOMAIN categories => i \notin DOMAIN categories'
      ]_vars

C9_Witness ==
    \E w \in Workers :
        /\ call[w].pc = "done" /\ call[w].op = "category.Delete"
        /\ call[w].id = 1 /\ categoriesSeq >= 1 /\ 1 \notin DOMAIN categories
        /\ call[w].seen = 0
        /\ call[w].err = ErrNoCategoryFound

\* C4: in the product update handler's read-then-update sequence, when another
\* writer's update of the row commits between the handler's read and its write,
\* the handler's write fails with Conflict and the handler never commits over a
\* row other than the one it read.
C4_NoLostUpdate ==
    [][\A w \in Workers :
        /\ (/\ call[w].pc = "read" /\ Stepped(w)
            /\ StoredVersion(products, call[w].id) # call[w].read)
           => /\ call'[w].pc = "done"
              /\ call'[w].err = ErrProductConflict
        /\ (/\ call[w].pc = "locked" /\ call[w].op = "http.updateProduct"
            /\ call'[w].pc = "done")
           => products[call[w].id].version = call[w].read
      ]_vars

\* C7: a successful partial Update changes only the fields present in the
\* request (and the version); every absent field keeps the value the row held
\* immediately before the update.
C7_AbsentFieldsKept ==
    [][/\ \A w \in Workers :
            (/\ Stepped(w) /\ call'[w].op = "category.Update"
             /\ call'[w].pc = "done" /\ call'[w].err = OK)
            => LET old == categories[call'[w].id]
                   new == categories'[call'[w].id]
                   in == call'[w].in
               IN  /\ in.name = NULL => new.name = old.name
                   /\ in.description = NULL => new.description = old.description
       /\ \A w \in Workers :
            (/\ call[w].pc = "locked" /\ call[w].op = "http.updateProduct"
             /\ call'[w].pc = "done" /\ call'[w].err = OK)
            => LET old == products[call[w].id]
                   new == products'[call[w].id]
                   in == call[w].in
               IN  /\ in.name = NULL => new.name = old.name
                   /\ in.description = NULL => new.description = old.description
                   /\ in.category_id = NullInt => new.category_id = old.category_id
                   /\ in.price = NullInt => new.price = old.price
                   /\ in.quantity = NullInt => new.quantity = old.quantity
      ]_vars

\* C8 (as amended): Cart Update carries no version precondition.  An update of
\* an existing cart whose product reference, when present, matches a product
\* succeeds whatever updates ran before it, never with a Conflict, and leaves
\* each field it names at its own value (last write wins) and the others as
\* they were; an update naming a product that does not exist returns
\* ErrCartInvalidProductID and changes nothing.
C8_CartLastWriteWins ==
    [][\A w \in Workers :
        (/\ Stepped(w) /\ call'[w].op = "cart.Update"
         /\ call'[w].id \in DOMAIN carts)
        => LET id == call'[w].id
               in == call'[w].in
           IN  /\ call'[w].err \notin {ErrCategoryConflict, ErrProductConflict}
               /\ IF in.product_id = NullInt \/ in.product_id \in DOMAIN products
                  THEN /\ call'[w].err = OK
                       /\ carts'[id].quantity =
                            IF in.quantity # NullInt THEN in.quantity
                            ELSE carts[id].quantity
                       /\ carts'[id].product_id =
                            IF in.product_id # NullInt THEN in.product_id
                            ELSE carts[id].product_id
                       /\ carts'[id].user_id = carts[id].user_id
                  ELSE /\ call'[w].err = ErrCartInvalidProductID
                       /\ carts' = carts
      ]_vars

\* two updates of one cart, both successful, the stored quantity that of one
\* of them and not the other's
C8_Witness ==
    \E p, q \in Workers :
        /\ p # q
        /\ call[p].pc = "done" /\ call[q].pc = "done"
        /\ call[p].op = "cart.Update" /\ call[q].op = "cart.Update"
        /\ call[p].id = call[q].id
        /\ call[p].err = OK /\ call[q].err = OK
        /\ call[p].in.quantity # NullInt /\ call[q].in.quantity # NullInt
        /\ call[p].in.quantity # call[q].in.quantity
        /\ call[p].id \in DOMAIN carts
        /\ carts[call[p].id].quantity = call[q].in.quantity

\* C8 (as stated): every update of an existing cart succeeds.
C8_CartUpdateAlwaysSucceeds ==
    [][\A w \in Workers :
        (/\ Stepped(w) /\ call'[w].op = "cart.Update"
         /\ call'[w].id \in DOMAIN carts)
        => call'[w].err = OK
      ]_vars

\* the rows a filter's equality predicates select
CategoryFilterHits(f) ==
    {i \in DOMAIN categories :
        (f.ID = 0 \/ i = f.ID) /\ (f.Name = "" \/ categories[i].name = f.Name)}
ProductFilterHits(f) ==
    {i \in DOMAIN products :
        (f.ID = 0 \/ i = f.ID)
        /\ (f.CategoryID = 0 \/ products[i].category_id = f.CategoryID)}

\* C10: for any filter, List returns the resource's not-found error when no row
\* matches the filter, and a nil error only together with at least one row.
C10_EmptyListIsNotFound ==
    [][\A w \in Workers :
        /\ (Stepped(w) /\ call'[w].op = "category.List")
           => /\ call'[w].err = OK => Len(call'[w].out) >= 1
              /\ CategoryFilterHits(call'[w].in) = {}
                 => call'[w].err = ErrNoCategoryFound
        /\ (Stepped(w) /\ call'[w].op = "product.List")
           => /\ call'[w].err = OK => Len(call'[w].out) >= 1
              /\ ProductFilterHits(call'[w].in) = {}
                 => call'[w].err = ErrNoProductsFound
      ]_vars

\* the rows of a table as List hands them back
AllRows(table) == {[id |-> i] @@ table[i] : i \in DOMAIN table}
ListedRows(out) == {out[k] : k \in 1..Len(out)}
ListsAll(c, table, notFound) ==
    IF DOMAIN table = {}
    THEN c.err = notFound /\ c.out = <<>>
    ELSE /\ c.err = OK
         /\ Len(c.out) = Cardinality(DOMAIN table)
         /\ ListedRows(c.out) = AllRows(table)

\* C11: for every resource, List with the empty filter returns every row that
\* is in the table at the time of the call (as many results as rows), and the
\* resource's not-found error when the table is empty.
C11_EmptyFilterListsAll ==
    [][\A w \in Workers :
        /\ (Stepped(w) /\ call'[w].op = "category.List"
                       /\ call'[w].in = EmptyCategoryFilter)
           => ListsAll(call'[w], categories, ErrNoCategoryFound)
        /\ (Stepped(w) /\ call'[w].op = "product.List"
                       /\ call'[w].in = EmptyProductFilter)
           => ListsAll(call'[w], products, ErrNoProductsFound)
        /\ (Stepped(w) /\ call'[w].op = "cart.List"
                       /\ call'[w].in = EmptyCartFilter)
           => ListsAll(call'[w], carts, ErrNoCartsFound)
        /\ (Stepped(w) /\ call'[w].op = "user.List"
                       /\ call'[w].in = EmptyUserFilter)
           => ListsAll(call'[w], users, ErrNoUserToList)
      ]_vars

\* an unfiltered cart list of two rows while the table holds two carts
C11_Witness ==
    \E w \in Workers :
        /\ call[w].pc = "done" /\ call[w].op = "cart.List"
        /\ call[w].in = EmptyCartFilter
        /\ call[w].err = OK /\ Len(call[w].out) = 2
        /\ Cardinality(DOMAIN carts) = 2

\* GetByID answered for `id` on `table`: the one row of that id, or not-found
GetsOwnRow(c, table, notFound) ==
    IF c.id \in DOMAIN table
    THEN c.err = OK /\ c.out = <<[id |-> c.id] @@ table[c.id]>>
    ELSE c.err = notFound /\ c.out = <<>>

\* C12: for every id value, GetByID(id) returns the single row whose id equals
\* the argument, or the resource's not-found error when no such row exists; it
\* never returns a row whose id differs from the argument.
C12_GetByIDReturnsOwnRow ==
    [][\A w \in Workers :
        /\ (Stepped(w) /\ call'[w].op = "category.GetByID")
           => GetsOwnRow(call'[w], categories, ErrNoCategoryFound)
        /\ (Stepped(w) /\ call'[w].op = "product.GetByID")
           => GetsOwnRow(call'[w], products, ErrNoProductsFound)
        /\ (Stepped(w) /\ call'[w].op = "cart.GetByID")
           => GetsOwnRow(call'[w], carts, ErrNoCartsFound)
        /\ (Stepped(w) /\ call'[w].op = "user.GetByID")
           => GetsOwnRow(call'[w], users, ErrNoUserToList)
      ]_vars

\* categoryStore.GetByID as a value: [err, out]
CategoryGetByIDResult(ID) ==
    LET r == CategoryListResult([EmptyCategoryFilter EXCEPT !.ID = ID])
    IN  [err |-> r.err, out |-> IF r.err = OK THEN <<r.out[1]>> ELSE <<>>]
\* worker w received the nil error of `op` in this transition
Succeeded(w, op) ==
    /\ Stepped(w) /\ call'[w].pc = "done" /\ call'[w].op = op /\ call'[w].err = OK

\* C13: when Create(e) returns nil, GetByID of the id it generated returns e
\* together with the generated fields: that id, and version 1 for the
\* versioned resources (categories, products).
C13_CreateThenGetByID ==
    [][\A w \in Workers :
        /\ \A id \in CategoryIDs :
            (Succeeded(w, "category.Create") /\ call'[w].id = id)
            => (CategoryGetByIDResult(id))' =
                 [err |-> OK, out |-> <<[id |-> id, version |-> 1] @@ call'[w].in>>]
        /\ \A id \in ProductIDs :
            (Succeeded(w, "product.Create") /\ call'[w].id = id)
            => (ProductGetByIDResult(id))' =
                 [err |-> OK, out |-> <<[id |-> id, version |-> 1] @@ call'[w].in>>]
        /\ \A id \in CartIDs :
            (Succeeded(w, "cart.Create") /\ call'[w].id = id)
            => (CartGetByIDResult(id))' =
                 [err |-> OK, out |-> <<[id |-> id] @@ call'[w].in>>]
        /\ \A id \in UserIDs :
            (Succeeded(w, "user.Create") /\ call'[w].id = id)
            => (UserGetByIDResult(id))' =
                 [err |-> OK, out |-> <<[id |-> id] @@ call'[w].in>>]
      ]_vars

\* the second product was created while the first is stored, and GetByID of
\* its id hands back the created product
C13_Witness ==
    \E w \in Workers :
        /\ call[w].pc = "done" /\ call[w].op = "product.Create" /\ call[w].err = OK
        /\ call[w].id = 2 /\ 1 \in DOMAIN products
        /\ ProductGetByIDResult(2).out = <<[id |-> 2, version |-> 1] @@ call[w].in>>

\* C14: Create whose unique field (category name, product name, user email)
\* equals that of a stored row returns the resource's Duplicate error, and the
\* table holds the same rows, as many as before the call.
C14_DuplicateCreateRejected ==
    [][\A w \in Workers :
        (Stepped(w) /\ call[w].pc = "idle") =>
            LET e == call'[w].in
            IN  /\ (/\ call'[w].op = "category.Create"
                    /\ \E i \in DOMAIN categories : categories[i].name = e.name)
                   => /\ call'[w].pc = "done"
                      /\ call'[w].err = ErrDuplicatedCategory
                      /\ categories' = categories
                /\ (/\ call'[w].op = "product.Create"
                    /\ \E i \in DOMAIN products : products[i].name = e.name)
                   => /\ call'[w].pc = "done"
                      /\ call'[w].err = ErrDuplicatedProduct
                      /\ products' = products
                /\ (/\ call'[w].op = "user.Create"
                    /\ \E i \in DOMAIN users : users[i].email = e.email)
                   => /\ call'[w].pc = "done"
                      /\ call'[w].err = ErrDuplicatedUserEmail
                      /\ users' = users
      ]_vars

\* a second user was refused for its email while the first user is stored
C14_Witness ==
    \E w \in Workers :
        /\ call[w].pc = "done" /\ call[w].op = "user.Create"
        /\ call[w].err = ErrDuplicatedUserEmail
        /\ Cardinality(DOMAIN users) = 1
        /\ \E i \in DOMAIN users : users[i].email = call[w].in.email

\* C15: Cart Create whose user reference matches no user returns
\* ErrCartInvalidUserID; with an existing user and a product reference that
\* matches no product it returns ErrCartInvalidProductID.  Neither is a generic
\* internal error, and neither stores a cart.
C15_CartCreateNamesBadReference ==
    [][\A w \in Workers :
        (Stepped(w) /\ call'[w].op = "cart.Create") =>
            LET cart == call'[w].in
            IN  /\ cart.user_id \notin DOMAIN users
                   => call'[w].err = ErrCartInvalidUserID /\ carts' = carts
                /\ (cart.user_id \in DOMAIN users
                    /\ cart.product_id \notin DOMAIN products)
                   => call'[w].err = ErrCartInvalidProductID /\ carts' = carts
      ]_vars

\* a cart of a stored user was refused for its product while another product
\* is stored
C15_Witness ==
    \E w \in Workers :
        /\ call[w].pc = "done" /\ call[w].op = "cart.Create"
        /\ call[w].err = ErrCartInvalidProductID
        /\ call[w].in.user_id \in DOMAIN users
        /\ call[w].in.product_id \notin DOMAIN products
        /\ products # <<>>

\* C16: at all times, whatever the interleaving of cart Create / Update with
\* user, product and category Delete, the product reference and the user
\* reference of every stored cart each name a stored row.
C16_CartReferencesResolve ==
    \A c \in DOMAIN carts :
        /\ carts[c].product_id \in DOMAIN products
        /\ carts[c].user_id \in DOMAIN users

\* a cart was created while the delete of another product, one that a stored
\* cart references, had run its statement and not yet committed
C16_Witness ==
    \E p, q \in Workers :
        /\ Pending(p) /\ call[p].op = "product.Delete"
        /\ call[q].pc = "done" /\ call[q].op = "cart.Create" /\ call[q].err = OK
        /\ \E c \in DOMAIN carts : carts[c].product_id = call[p].id

\* C17: a Delete of a category that returns nil removes, with the category,
\* every product that references it: GetByID of such a product then returns
\* the not-found error, and no stored product references a category that is
\* not stored.
C17_CategoryDeleteCascades ==
    [][/\ \A w \in Workers, ID \in CategoryIDs :
            (/\ Stepped(w) /\ call'[w].op = "category.Delete"
             /\ call'[w].id = ID /\ call'[w].err = OK)
            => \A i \in ProductIDs :
                 (i \in DOMAIN products /\ products[i].category_id = ID)
                 => /\ i \notin DOMAIN products'
                    /\ (ProductGetByIDResult(i))' =
                         [err |-> ErrNoProductsFound, out |-> <<>>]
       /\ \A i \in DOMAIN products' :
            products'[i].category_id \in DOMAIN categories'
      ]_vars

\* one worker still holds the response of the Create of a product, the other
\* the nil response of the Delete of that product's category: the product is
\* gone, a product of the other category is stored
C17_Witness ==
    \E p, q \in Workers :
        /\ call[p].pc = "done" /\ call[p].op = "product.Create" /\ call[p].err = OK
        /\ call[q].pc = "done" /\ call[q].op = "category.Delete" /\ call[q].err = OK
        /\ call[q].id = call[p].in.category_id
        /\ call[p].id \notin DOMAIN products
        /\ products # <<>>

\* the stored tokens whose digest is that of the plain token
TokensOf(plainToken) == {t \in tokens : t.hashed = HashToken(plainToken)}

\* C18: token lookup never returns a user id for a token whose expiry is at
\* or before the current time, although the token row is still stored: a nil
\* lookup returns the user of a stored token of that digest with expiry after
\* now, and a lookup that finds only expired tokens returns no id.
C18_ExpiredTokenNeverReturned ==
    [][\A w \in Workers :
        (Stepped(w) /\ call'[w].op = "token.GetUserID") =>
            LET mine == TokensOf(call'[w].in.plainToken)
            IN  /\ call'[w].err = OK
                   => \E t \in mine : t.user_id = call'[w].id /\ t.expiry > now
                /\ (\A t \in mine : t.expiry <= now)
                   => call'[w].err # OK /\ call'[w].id = 0 /\ call'[w].out = <<>>
      ]_vars

\* a lookup came back without a user while the token of that digest, expired,
\* is still stored and its user still exists
C18_Witness ==
    \E w \in Workers :
        /\ call[w].pc = "done" /\ call[w].op = "token.GetUserID"
        /\ call[w].err # OK
        /\ \E t \in TokensOf(call[w].in.plainToken) :
                t.expiry <= now /\ t.user_id \in DOMAIN users

\* C19: GetUserID(plainToken) returns the id of the user that owns an unexpired
\* token whose stored digest is the digest of plainToken, or, when there is no
\* such token (unknown or expired), an error of the not-found / invalid-token
\* kind, never the generic internal error.
C19_UnknownTokenIsNotFound ==
    [][\A w \in Workers :
        (Stepped(w) /\ call'[w].op = "token.GetUserID") =>
            LET live == {t \in TokensOf(call'[w].in.plainToken) :
                            t.expiry > now /\ t.user_id \in DOMAIN users}
            IN  IF live # {}
                THEN call'[w].err = OK /\ call'[w].id \in {t.user_id : t \in live}
                ELSE call'[w].err \in {ErrInvalidToken, ErrNoTokenFound, ErrNoRows}
      ]_vars

\* the rows of `table` whose name matches the query, with their id column
Matching(table, query) ==
    {[id |-> i] @@ table[i] :
        i \in {j \in DOMAIN table : TsMatch(ToTsVector(table[j].name), ToTsQuery(query))}}
\* hits is one category-tagged hit per row of `rows`, each row once
OnePerCategory(hits, rows) ==
    /\ Len(hits) = Cardinality(rows)
    /\ {hits[k].Categories : k \in 1..Len(hits)} = {<<r>> : r \in rows}
    /\ \A k \in 1..Len(hits) : hits[k].Prodcuts = <<>>
OnePerProduct(hits, rows) ==
    /\ Len(hits) = Cardinality(rows)
    /\ {hits[k].Prodcuts : k \in 1..Len(hits)} = {<<r>> : r \in rows}
    /\ \A k \in 1..Len(hits) : hits[k].Categories = <<>>

\* C20: Search(q) returns the concatenation of one hit per Category row that
\* matches q (as its first statement finds them) and one hit per Product row
\* that matches q (as its second statement finds them), each hit tagged as a
\* category or as a product and not both; with one matching category and one
\* matching product the result has 2 elements, one of each tag.
C20_SearchConcatenatesHits ==
    [][\A w \in Workers :
        /\ (Stepped(w) /\ call'[w].pc = "searching")
           => OnePerCategory(call'[w].out, Matching(categories, call'[w].in.query))
        /\ (Stepped(w) /\ call[w].pc = "searching" /\ call'[w].pc = "done")
           => LET found == Matching(products, call[w].in.query)
                  n == Len(call[w].out)
              IN  IF n = 0 /\ found = {}
                  THEN call'[w].err = ErrNoSearchResult /\ call'[w].out = <<>>
                  ELSE /\ call'[w].err = OK
                       /\ Len(call'[w].out) = n + Cardinality(found)
                       /\ SubSeq(call'[w].out, 1, n) = call[w].out
                       /\ OnePerProduct(SubSeq(call'[w].out, n + 1, Len(call'[w].out)),
                                         found)
      ]_vars

\* a search that one of two categories and one of two products match: two
\* hits, the category first
C20_Witness ==
    \E w \in Workers :
        /\ call[w].pc = "done" /\ call[w].op = "search.Search" /\ call[w].err = OK
        /\ Cardinality(DOMAIN categories) = 2 /\ Cardinality(DOMAIN products) = 2
        /\ Cardinality(Matching(categories, call[w].in.query)) = 1
        /\ Cardinality(Matching(products, call[w].in.query)) = 1
        /\ Len(call[w].out) = 2
        /\ call[w].out[1].Categories # <<>> /\ call[w].out[1].Prodcuts = <<>>
        /\ call[w].out[2].Prodcuts # <<>> /\ call[w].out[2].Categories = <<>>

\* C21: a Search(q) that returns hands back the NoSearchResult error, and no
\* result list, exactly when its statement on categories and its statement on
\* products both found no row matching q; otherwise it returns nil and a
\* result list that is not empty.
C21_NoSearchResultIffNoMatch ==
    [][\A w \in Workers :
        /\ (Stepped(w) /\ call'[w].pc = "searching")
           => (call'[w].out = <<>>
                 <=> Matching(categories, call'[w].in.query) = {})
        /\ (Stepped(w) /\ call[w].pc = "searching" /\ call'[w].pc = "done")
           => LET none == /\ call[w].out = <<>>
                          /\ Matching(products, call[w].in.query) = {}
              IN  /\ call'[w].err = ErrNoSearchResult <=> none
                  /\ call'[w].out = <<>> <=> none
                  /\ call'[w].err \in {OK, ErrNoSearchResult}
      ]_vars

\* a search answered with NoSearchResult over a catalog that holds a category
\* and a product, neither matching the query
C21_Witness ==
    \E w \in Workers :
        /\ call[w].pc = "done" /\ call[w].op = "search.Search"
        /\ call[w].err = ErrNoSearchResult /\ call[w].out = <<>>
        /\ categories # <<>> /\ products # <<>>
        /\ Matching(categories, call[w].in.query) = {}
        /\ Matching(products, call[w].in.query) = {}

\* C22: whatever equality predicates, sort column, limit and offset a filter
\* sets, the statement List builds by appending its fragments to the base
\* query (WHERE 1=1) is one the engine accepts.
C22_ListStatementAccepted ==
    [][\A w \in Workers :
        /\ (Stepped(w) /\ call'[w].op = "category.List")
           => /\ ~QueryRejected(CategoryListQuery(call'[w].in))
              /\ call'[w].err # ErrInternal
        /\ (Stepped(w) /\ call'[w].op = "product.List")
           => /\ ~QueryRejected(ProductListQuery(call'[w].in))
              /\ call'[w].err # ErrInternal
      ]_vars

\* the structure of a statement: its fragments with every literal replaced by
\* a placeholder
SqlKeywords == {"AND", "OR", "=", "ORDER BY", "LIMIT", "OFFSET"}
Shape(q) ==
    [i \in 1..Len(q) |->
        [k \in 1..Len(q[i]) |->
            IF q[i][k] \in SqlKeywords \/ (q[i][1] \in {"AND", "ORDER BY"} /\ k = 2)
            THEN q[i][k] ELSE "?"]]

\* C23: the value of an equality predicate reaches the engine as a value and
\* not as statement text: the statement List sends has the structure it has
\* for any other value of that predicate, and List returns rows that carry
\* the value it was asked for.
C23_FilterValueIsBound ==
    [][\A w \in Workers :
        /\ (Stepped(w) /\ call'[w].op = "category.List" /\ call'[w].in.Name # "")
           => /\ Shape(CategoryListQuery(call'[w].in))
                    = Shape(CategoryListQuery([call'[w].in EXCEPT !.Name = "a"]))
              /\ \A k \in 1..Len(call'[w].out) :
                    call'[w].out[k].name = call'[w].in.Name
        /\ (Stepped(w) /\ call'[w].op = "user.List" /\ call'[w].in.Email # "")
           => /\ Shape(UserListQuery(call'[w].in))
                    = Shape(UserListQuery([call'[w].in EXCEPT !.Email = "e"]))
              /\ \A k \in 1..Len(call'[w].out) :
                    call'[w].out[k].email = call'[w].in.Email
      ]_vars

\* ---------------------------------------------------------- HTTP boundary
\* the requests the handlers of the catalog routes serve
HandlerOps == {"http.updateProduct", "http.updateCategory", "http.createProduct",
               "http.listCategories"}
ConflictErrs == {ErrCategoryConflict, ErrProductConflict}
DuplicateErrs == {ErrDuplicatedCategory, ErrDuplicatedProduct}
ClientErrorStatus == {"StatusBadRequest", "StatusNotFound", "StatusConflict",
                      "StatusUnprocessableEntity"}
\* worker w holds the answered request of a handler
Answered(w) == call[w].pc = "done" /\ call[w].op \in HandlerOps

\* C24: whenever a store operation returns a Conflict or a Duplicate error,
\* the handler answers with a client-error (4xx) status and never with a
\* server-error (5xx) status.
C24_ConflictAndDuplicateAreClientErrors ==
    \A w \in Workers :
        (Answered(w) /\ call[w].err \in ConflictErrs \cup DuplicateErrs)
        => /\ responses[w] # <<>>
           /\ \A i \in 1..Len(responses[w]) : responses[w][i].code \in ClientErrorStatus

\* C25: a store error that is not one of the domain errors is answered with a
\* generic server-error response: no response written to a client carries
\* the text of the storage engine.
C25_NoEngineTextInResponse ==
    \A w \in Workers :
        \A i \in 1..Len(responses[w]) :
            \A k \in 1..Len(responses[w][i].message) :
                responses[w][i].message[k] # RawEngineText

\* C28: a create-product request whose body fails ProductCreate.Validate never
\* reaches ProductStore.Create: it consumes no id and inserts no row, and the
\* only response written for it is the 400 of the validation error.
C28_InvalidBodyNeverCreates ==
    \A w \in Workers :
        (call[w].op = "http.createProduct" /\ ProductCreateValidate(call[w].in) # OK)
        => /\ call[w].pc # "locked"
           /\ call[w].id = 0
           /\ call[w].pc = "done"
              => responses[w] =
                    << [code |-> "StatusBadRequest",
                        message |-> ErrorText(ProductCreateValidate(call[w].in))] >>

\* C27: when a full-text statement of Search fails (the query string is not a
\* valid tsquery), Search returns an error to its caller and the process keeps
\* running: no request goroutine is taken down with it.
C27_SearchFailureIsReturned ==
    \A w \in Workers :
        (call[w].op = "search.Search" /\ ~ToTsQuery(call[w].in.query).ok)
        => /\ call[w].pc = "done"
           /\ call[w].err # OK
           /\ \A v \in Workers : call[v].pc # "exited"

\* ------------------------------------------------------ concurrent deletes
DeleteTable(op) ==
    IF op = "category.Delete" THEN categories
    ELSE IF op = "product.Delete" THEN products
    ELSE carts
DeleteNotFound(op) ==
    IF op = "category.Delete" THEN ErrNoCategoryFound
    ELSE IF op = "product.Delete" THEN ErrNoProductsFound
    ELSE ErrNoCartsFound
DeleteIDs == CategoryIDs \cup ProductIDs \cup CartIDs

\* C30: of two Delete calls for one existing id that run concurrently, exactly
\* one returns success and the other returns the resource's NotFound error,
\* and the row is absent afterwards.  The Delete whose statement reaches the
\* row succeeds; a Delete that returns while the other still holds its success
\* for the same id returns NotFound; no row of that id is left when either
\* returns.
C30_ConcurrentDeletesOneSucceeds ==
    [][\A q \in Workers, op \in DeleteOps, id \in DeleteIDs :
        (Stepped(q) /\ call'[q].op = op /\ call'[q].id = id)
        => /\ (call[q].pc = "idle" /\ id \in DOMAIN DeleteTable(op))
              => call'[q].err = OK
           /\ call'[q].pc = "done"
              => /\ id \notin DOMAIN (DeleteTable(op))'
                 /\ \A p \in Workers \ {q} :
                        (/\ call[p].pc = "done" /\ call[p].op = op
                         /\ call[p].id = id /\ call[p].err = OK)
                        => call'[q].err = DeleteNotFound(op)
      ]_vars
C30_Witness ==
    \E p, q \in Workers :
        /\ p # q
        /\ call[p].pc = "done" /\ call[q].pc = "done"
        /\ call[p].op = "product.Delete" /\ call[q].op = "product.Delete"
        /\ call[p].id = call[q].id
        /\ call[p].err = OK /\ call[q].err = ErrNoProductsFound
        /\ call[p].id \notin DOMAIN products

\* --------------------------------------------- failed and cancelled writes
\* the rows of the three tables the writes of this model touch
Rows == <<categories, products, carts>>
\* worker w's call returned an error in this step
Failed(w) == Stepped(w) /\ call'[w].pc = "done" /\ call'[w].err # OK

\* the whole effect of each write, stated on the tables before and after
WholeCategoryUpdate(w) ==
    /\ call'[w].op = "category.Update"
    /\ call'[w].id \in DOMAIN categories
    /\ categories' =
          Put(categories, call'[w].id,
              [name |-> Coalesce(call'[w].in.name, categories[call'[w].id].name),
               description |-> Coalesce(call'[w].in.description,
                                        categories[call'[w].id].description),
               version |-> categories[call'[w].id].version + 1])
    /\ UNCHANGED <<products, carts>>
WholeCategoryDelete(w) ==
    /\ call'[w].op = "category.Delete"
    /\ LET gone == {i \in DOMAIN products : products[i].category_id = call'[w].id}
       IN  /\ categories' = Drop(categories, {call'[w].id})
           /\ products' = Drop(products, gone)
           /\ carts' = Drop(carts, {c \in DOMAIN carts : carts[c].product_id \in gone})
WholeProductWrite(w) ==
    /\ call[w].pc = "locked"
    /\ call[w].op \in {"product.Create", "product.Update"}
    /\ products' = Put(products, call[w].id, call[w].out[1])
    /\ UNCHANGED <<categories, carts>>
WholeProductDelete(w) ==
    /\ call[w].pc = "locked"
    /\ call[w].op = "product.Delete"
    /\ products' = Drop(products, {call[w].id})
    /\ carts' = Drop(carts, {c \in DOMAIN carts : carts[c].product_id = call[w].id})
    /\ UNCHANGED categories

\* C26: a Create, Update or Delete call that fails or is cancelled leaves no
\* partially applied state: when it returns its error the tables hold either
\* what they held before or the whole effect of the operation, the cascade of
\* a delete included.
C26_FailedWriteIsWholeOrNothing ==
    [][\A w \in Workers :
        Failed(w)
        => /\ UNCHANGED users
           /\ \/ UNCHANGED Rows
              \/ WholeCategoryUpdate(w)
              \/ WholeCategoryDelete(w)
              \/ WholeProductWrite(w)
              \/ WholeProductDelete(w)
      ]_vars
\* a cancelled category delete that the engine had run: the category, its
\* product and the product's cart are gone together
C26_Witness ==
    \E w \in Workers :
        /\ call[w].pc = "done" /\ call[w].op = "category.Delete"
        /\ call[w].err = ErrDeadlineExceeded
        /\ call[w].seen > 0
        /\ call[w].id \notin DOMAIN categories
        /\ cartsSeq > 0 /\ carts = <<>> /\ products = <<>>

\* C29: when a Create, Update or Delete call returns an error, a timeout or a
\* cancellation of the request included, the write did not take effect: the
\* rows, their contents and their versions are what they were.
C29_ErrorMeansNoEffect ==
    [][\A w \in Workers : Failed(w) => UNCHANGED <<Rows, users>>]_vars

\* C29 as it holds: an error leaves the rows as they were unless it is the
\* error of a statement or a commit that the end of the request interrupted
\* in flight.
C29_ErrorOutsideFlightMeansNoEffect ==
    [][\A w \in Workers :
        (Failed(w) /\ call'[w].err # ErrDeadlineExceeded)
        => UNCHANGED <<Rows, users>>
      ]_vars
\* an update abandoned before its commit: the row is at the version the
\* update named
C29_Witness ==
    \E w \in Workers :
        /\ call[w].pc = "done" /\ call[w].op = "product.Update"
        /\ call[w].err = ErrCanceled
        /\ call[w].id \in DOMAIN products
        /\ products[call[w].id].version = call[w].in.version
====
